---- MODULE Spec2Model ----
(***************************************************************************)
(* Recipe cache-and-generation pipeline of the Ingredients-to-Recipe       *)
(* backend: cache-key derivation, cache lookup, the Groq client with its   *)
(* rate limiter and retry loop, the response parser, the recipe persister  *)
(* and the search orchestration.                                           *)
(*                                                                         *)
(* Conventions.  A Python str is a sequence of code points (97 = "a",      *)
(* 65 = "A", 32 = " ", 33 = "!").  A Python / JSON value is a record with  *)
(* a tag t: None, int, str, list, dict.  Time is in seconds.               *)
(***************************************************************************)
EXTENDS Integers, Sequences, FiniteSets, TLC

(***************************************************************************)
(* Bounds of the model                                                     *)
(***************************************************************************)
\* longest ingredient list handed to generate_cache_key
MaxIngredients == 2
\* most Recipe rows in the store that get_cached_recipes is run against
MaxCacheRows == 2
\* largest max_requests_per_minute a RateLimiter is constructed with
MaxLimit == 2
\* most calls of wait_if_needed on one RateLimiter
MaxLimiterCalls == 4
\* the clock of the limiter runs in steps of this many seconds
LimiterTick == 20
\* idle clock steps between calls of wait_if_needed
MaxLimiterTicks == 6
\* most calls of generate_completion on one GroqService
MaxCompletions == 2
\* most entries of the 'recipes' list that parse_recipe_response is given
MaxEntries == 2
\* most drafts in a batch that generate_recipes persists
MaxDrafts == 2
\* most calls of search_recipes
MaxSearches == 2
\* most steps of the clock between searches
MaxDays == 2

MaxRecipeIngredients == 3

MaxUserIngredients == 2

MaxPageDrafts == 3

MaxPage == 2

MaxPageSize == 3

MaxNameLen == 3

MaxRetries == 4

MaxDetailRequests == 3
\* search requests served at the same time
MaxRaceRequests == 2
\* callers of wait_if_needed that run at the same time
MaxCallers == 2
\* calls of store_recipe_in_db that run at the same time
MaxPersists == 2
\* most calls of wait_if_needed by callers that run at the same time
MaxWindowCalls == 2
\* the clock of those callers runs in steps of this many seconds
WindowTick == 30
\* clock steps while those callers run
MaxWindowTicks == 1

(***************************************************************************)
(* Python values                                                           *)
(***************************************************************************)
PyNone == [t |-> "None"]

PyInt(n) == [t |-> "int", v |-> n]

PyStr(s) == [t |-> "str", v |-> s]

PyList(s) == [t |-> "list", v |-> s]

\* a dict keeps its insertion order: a sequence of <<key, value>> pairs
PyDict(pairs) == [t |-> "dict", v |-> pairs]

\* bool(v)
Truthy(v) ==
    CASE v.t = "None" -> FALSE
      [] v.t = "int" -> v.v # 0
      [] OTHER -> Len(v.v) > 0

\* key in d
HasKey(d, k) == \E i \in 1..Len(d.v) : d.v[i][1] = k

\* d[key]
GetItem(d, k) == d.v[CHOOSE i \in 1..Len(d.v) : d.v[i][1] = k][2]

(***************************************************************************)
(* Python strings                                                          *)
(***************************************************************************)
IsSpace(c) == c \in {9, 10, 11, 12, 13, 32}

LowerChar(c) == IF c \in 65..90 THEN c + 32 ELSE c

\* str.lower()
StrLower(s) == [i \in 1..Len(s) |-> LowerChar(s[i])]

RECURSIVE LStrip(_)
LStrip(s) == IF s # <<>> /\ IsSpace(Head(s)) THEN LStrip(Tail(s)) ELSE s

RECURSIVE RStrip(_)
RStrip(s) ==
    IF s # <<>> /\ IsSpace(s[Len(s)]) THEN RStrip(SubSeq(s, 1, Len(s) - 1)) ELSE s

\* str.strip()
Strip(s) == RStrip(LStrip(s))

\* a < b on str: code point by code point, a proper prefix first
RECURSIVE StrLess(_, _)
StrLess(a, b) ==
    IF b = <<>> THEN FALSE
    ELSE IF a = <<>> THEN TRUE
    ELSE IF Head(a) # Head(b) THEN Head(a) < Head(b)
    ELSE StrLess(Tail(a), Tail(b))

RECURSIVE InsertSorted(_, _)
InsertSorted(x, s) ==
    IF s = <<>> THEN <<x>>
    ELSE IF StrLess(x.v, Head(s).v) THEN <<x>> \o s
    ELSE <<Head(s)>> \o InsertSorted(x, Tail(s))

RECURSIVE SortedStrs(_)
SortedStrs(s) == IF s = <<>> THEN <<>> ELSE InsertSorted(Head(s), SortedStrs(Tail(s)))

\* a faulty variant of sorted(): the list is left in the order given
Unsorted(l) == l

\* sorted(l) for a list of str, in code point order
sorted(l) == SortedStrs(l)

(***************************************************************************)
(* recipe_cache_service.generate_cache_key                                 *)
(***************************************************************************)
\* json.dumps(..., sort_keys=True) writes the keys of cache_data in
\* lexicographic order; these are the only keys cache_data can hold
KeyRank(k) ==
    CASE k = "cooking_time_range" -> 1
      [] k = "dietary_preferences" -> 2
      [] k = "ingredients" -> 3

RECURSIVE InsertPair(_, _)
InsertPair(p, s) ==
    IF s = <<>> THEN <<p>>
    ELSE IF KeyRank(p[1]) < KeyRank(Head(s)[1]) THEN <<p>> \o s
    ELSE <<Head(s)>> \o InsertPair(p, Tail(s))

RECURSIVE SortPairs(_)
SortPairs(s) == IF s = <<>> THEN <<>> ELSE InsertPair(Head(s), SortPairs(Tail(s)))

\* json.dumps(cache_data, sort_keys=True): the text is determined by, and
\* determines, the key-sorted sequence of pairs
json_dumps_sorted(d) == SortPairs(d.v)

\* hashlib.sha256(s.encode()).hexdigest(), taken as collision-free: the digest
\* stands for the text it was computed from
sha256_hexdigest(s) == [sha256 |-> s]

\* lines 44-45: the sorted dietary preferences join cache_data when given
add_dietary_preferences(cache_data, filters) ==
    IF /\ HasKey(filters, "dietary_preferences")
       /\ Truthy(GetItem(filters, "dietary_preferences"))
    THEN Append(cache_data, <<"dietary_preferences",
                              PyList(sorted(GetItem(filters, "dietary_preferences").v))>>)
    ELSE cache_data

\* a faulty variant of add_cooking_time_range: the range never reaches cache_data
range_left_out(cache_data, filters) == cache_data

\* lines 47-48: the cooking time range joins cache_data, as given, when truthy
add_cooking_time_range(cache_data, filters) ==
    IF /\ HasKey(filters, "cooking_time_range")
       /\ Truthy(GetItem(filters, "cooking_time_range"))
    THEN Append(cache_data, <<"cooking_time_range", GetItem(filters, "cooking_time_range")>>)
    ELSE cache_data

\* the text that generate_cache_key hashes (lines 35-51)
cache_string(ingredients, filters) ==
    LET sorted_ingredients ==
            sorted([i \in 1..Len(ingredients) |->
                        PyStr(Strip(StrLower(ingredients[i].v)))])
        cache_data == <<<<"ingredients", PyList(sorted_ingredients)>>>>
    IN json_dumps_sorted(PyDict(
           IF Truthy(filters)
           THEN add_cooking_time_range(add_dietary_preferences(cache_data, filters), filters)
           ELSE cache_data))

generate_cache_key(ingredients, filters) ==
    sha256_hexdigest(cache_string(ingredients, filters))

(***************************************************************************)
(* recipe_cache_service.get_cached_recipes                                 *)
(***************************************************************************)
SecondsPerDay == 86400

\* the default max_age_days
DefaultMaxAgeDays == 7

\* a NULL cache_key column
SqlNull == [sha256 |-> <<>>]

\* a faulty variant of expiration_threshold: timedelta(hours=...) for timedelta(days=...)
threshold_in_hours(t, max_age_days) == t - max_age_days * 3600

\* line 78: datetime.utcnow() - timedelta(days=max_age_days)
expiration_threshold(t, max_age_days) == t - max_age_days * SecondsPerDay

\* a set of rows as the list a query returns, in id order
RECURSIVE RowsById(_)
RowsById(rows) ==
    IF rows = {} THEN <<>>
    ELSE LET r == CHOOSE x \in rows : \A y \in rows : x.id <= y.id
         IN <<r>> \o RowsById(rows \ {r})

\* a faulty variant of get_cached_recipes: .first() for .all()
get_first_cached(rows, t, cache_key, max_age_days) ==
    LET found == {r \in rows : /\ r.cache_key = cache_key
                               /\ r.created_at >= expiration_threshold(t, max_age_days)}
    IN IF found # {} THEN PyList(<<CHOOSE r \in found : \A o \in found : r.id <= o.id>>) ELSE PyNone

\* lines 77-93, against the committed Recipe rows at time t
get_cached_recipes(rows, t, cache_key, max_age_days) ==
    LET found == {r \in rows : /\ r.cache_key = cache_key
                               /\ r.created_at >= expiration_threshold(t, max_age_days)}
    IN IF found # {} THEN PyList(RowsById(found)) ELSE PyNone

(***************************************************************************)
(* recipe_cache_service.invalidate_cache and cleanup_expired_cache         *)
(*                                                                         *)
(* Both work on the Recipe rows and on the rows of the other tables, and   *)
(* give the rows that are left and the count they return.                  *)
(***************************************************************************)
\* db.delete(recipe) for each of the doomed recipes, then db.commit(): the
\* relationships recipe_ingredients and dietary_tags of models.Recipe
\* cascade the delete to the association rows
delete_recipes(rows, other_rows, doomed) ==
    [recipes |-> rows \ doomed,
     tables |-> {a \in other_rows :
                   ~(/\ a.table \in {"recipe_ingredients", "recipe_dietary_tags"}
                     /\ \E r \in doomed : r.id = a.recipe_id)},
     count |-> Cardinality(doomed)]

\* a faulty variant of invalidate_cache: only the first recipe found goes
invalidate_first(rows, other_rows, cache_key) ==
    LET found == {r \in rows : r.cache_key = cache_key}
    IN delete_recipes(rows, other_rows,
                      {r \in found : \A o \in found : r.id <= o.id})

\* lines 107-117
invalidate_cache(rows, other_rows, cache_key) ==
    delete_recipes(rows, other_rows, {r \in rows : r.cache_key = cache_key})

\* a faulty variant of is_expired: a recipe exactly max_age old goes too
is_due(r, threshold) == r.cache_key # SqlNull /\ r.created_at <= threshold

\* lines 133-136: cache_key IS NOT NULL AND created_at < expiration_threshold
is_expired(r, threshold) == r.cache_key # SqlNull /\ r.created_at < threshold

\* lines 131-147
cleanup_expired_cache(rows, other_rows, t, max_age_days) ==
    delete_recipes(rows, other_rows,
                   {r \in rows : is_expired(r, expiration_threshold(t, max_age_days))})

(***************************************************************************)
(* groq_service.RateLimiter                                                *)
(***************************************************************************)
\* RateLimiter.window_seconds
window_seconds == 60

\* GroqService builds its limiter with max_requests_per_minute=30
GroqRequestsPerMinute == 30

\* lines 32-33 and 44-45: the requests still inside the window at time t
InWindow(reqs, t) == SelectSeq(reqs, LAMBDA req_time : t - req_time < window_seconds)

SeqMin(q) == CHOOSE x \in {q[i] : i \in 1..Len(q)} : \A j \in 1..Len(q) : x <= q[j]

\* a faulty variant of window_full: > for >=
window_overfull(reqs, limit) == Len(reqs) > limit

\* line 35: len(self.requests) >= self.max_requests
window_full(reqs, limit) == Len(reqs) >= limit

\* line 37: min(self.requests)
oldest_request(reqs) == SeqMin(reqs)

\* wait_if_needed (lines 26-48) entered at time t by the only caller;
\* time.sleep(wait_time) returns overslept seconds late.  Yields the new
\* window, the time of return, the time slept and the requests found.
wait_if_needed(reqs, limit, t, overslept) ==
    LET kept == InWindow(reqs, t)
        wait_time == window_seconds - (t - oldest_request(kept))
    IN IF window_full(kept, limit) /\ wait_time > 0
       THEN LET t2 == t + wait_time + overslept
            IN [requests |-> Append(InWindow(kept, t2), t2), now |-> t2,
                slept |-> wait_time, found |-> Len(kept), entered |-> t]
       ELSE [requests |-> Append(kept, t), now |-> t,
             slept |-> 0, found |-> Len(kept), entered |-> t]

(***************************************************************************)
(* groq_service.GroqService.generate_completion                            *)
(***************************************************************************)
\* the default max_retries
DefaultMaxRetries == 3

RECURSIVE Pow2(_)
Pow2(n) == IF n = 0 THEN 1 ELSE 2 * Pow2(n - 1)

\* what the provider's chat.completions.create raises in the tests
ProviderErrors == {"API Error 1", "API Error 2"}

\* a message content that is not a JSON document
NotJson == [t |-> "text", doc |-> <<>>]

\* a message content that is the JSON document of value v
JsonText(v) == [t |-> "text", doc |-> <<v>>]

\* a ChatCompletion with one choice whose message.content is content
Response(content) == [choices |-> <<content>>]

\* a ChatCompletion without choices
NoChoices == [choices |-> <<>>]

\* the frame of one call of generate_completion: calls lists the outcome of
\* each provider call made, backoffs the sleeps between attempts
GcIdle ==
    [pc |-> "idle", max_retries |-> 0, attempt |-> 0, last_error |-> "None",
     calls |-> <<>>, backoffs |-> <<>>, result |-> [kind |-> "none"]]

\* line 104: for attempt in range(max_retries)
GcStart(max_retries) == [GcIdle EXCEPT !.pc = "running", !.max_retries = max_retries]

\* a faulty variant of loop_continues: one attempt too many
loop_one_too_many(g) == g.attempt <= g.max_retries

\* line 104: the loop has another attempt to make
loop_continues(g) == g.attempt < g.max_retries

\* a faulty variant of on_success: the response is dropped and the loop goes on
on_success_continue(g, response) ==
    [g EXCEPT !.calls = Append(@, [ok |-> TRUE, value |-> response]),
              !.attempt = @ + 1]

\* lines 110-128: the provider returned; return response
on_success(g, response) ==
    [g EXCEPT !.calls = Append(@, [ok |-> TRUE, value |-> response]),
              !.pc = "returned",
              !.result = [kind |-> "response", value |-> response]]

\* a faulty variant of backoff: it waits after the last attempt too
backoff_always(g) == <<Pow2(g.attempt)>>

\* line 137: the wait before the next attempt, none after the last one
backoff(g) == IF g.attempt < g.max_retries - 1 THEN <<Pow2(g.attempt)>> ELSE <<>>

\* time.sleep over the waits q
SleepSeconds(q) == IF q = <<>> THEN 0 ELSE q[1]

\* lines 130-140: the provider raised e
on_failure(g, e) ==
    [g EXCEPT !.calls = Append(@, [ok |-> FALSE, value |-> e]),
              !.last_error = e,
              !.backoffs = @ \o backoff(g),
              !.attempt = @ + 1]

\* lines 142-144: every attempt failed
on_exhausted(g) ==
    [g EXCEPT !.pc = "raised",
              !.result = [kind |-> "Exception", value |-> g.last_error]]

(***************************************************************************)
(* recipe_generation_service.parse_recipe_response                         *)
(***************************************************************************)
Raised(type, message) == [raised |-> type, message |-> message]

Returned(value) == [returned |-> value]

IsRaised(outcome) == "raised" \in DOMAIN outcome

IsReturned(outcome) == "returned" \in DOMAIN outcome

\* line 41: json.loads of a message content
json_loads(text) ==
    IF text.t # "text" THEN Raised("TypeError", "the JSON object must be str, bytes or bytearray")
    ELSE IF text.doc = <<>> THEN Raised("JSONDecodeError", "Expecting value")
    ELSE Returned(text.doc[1])

\* lines 58-61
required_fields ==
    <<"name", "description", "ingredients", "instructions",
      "cooking_time_minutes", "difficulty", "serving_size">>

\* the characters of a required field's name
CodePoints(field) ==
    CASE field = "name" ->
           <<110, 97, 109, 101>>
      [] field = "description" ->
           <<100, 101, 115, 99, 114, 105, 112, 116, 105, 111, 110>>
      [] field = "ingredients" ->
           <<105, 110, 103, 114, 101, 100, 105, 101, 110, 116, 115>>
      [] field = "instructions" ->
           <<105, 110, 115, 116, 114, 117, 99, 116, 105, 111, 110, 115>>
      [] field = "cooking_time_minutes" ->
           <<99, 111, 111, 107, 105, 110, 103, 95, 116, 105, 109, 101, 95, 109, 105, 110, 117, 116, 101, 115>>
      [] field = "difficulty" ->
           <<100, 105, 102, 102, 105, 99, 117, 108, 116, 121>>
      [] field = "serving_size" ->
           <<115, 101, 114, 118, 105, 110, 103, 95, 115, 105, 122, 101>>

IsSubstring(a, b) ==
    \E i \in 0..(Len(b) - Len(a)) : SubSeq(b, i + 1, i + Len(a)) = a

\* line 65: field in recipe, for whatever value the entry is: a key of a
\* dict, an element of a list, a substring of a str, a TypeError otherwise
field_in(field, recipe) ==
    CASE recipe.t = "dict" -> Returned(HasKey(recipe, field))
      [] recipe.t = "list" ->
           Returned(\E i \in 1..Len(recipe.v) : recipe.v[i] = PyStr(CodePoints(field)))
      [] recipe.t = "str" -> Returned(IsSubstring(CodePoints(field), recipe.v))
      [] OTHER -> Raised("TypeError", "argument is not iterable")

\* lines 77-84: the first complaint about an ingredient entry, if any
check_ingredient(ingredient) ==
    IF ingredient.t # "dict"
    THEN Raised("RecipeGenerationError", "ingredient is not an object")
    ELSE IF ~HasKey(ingredient, "name")
    THEN Raised("RecipeGenerationError", "ingredient missing 'name'")
    ELSE Returned(TRUE)

\* the first element of q that raised, or Returned(TRUE)
FirstRaised(q) ==
    IF \E i \in 1..Len(q) : IsRaised(q[i])
    THEN q[CHOOSE i \in 1..Len(q) :
              IsRaised(q[i]) /\ \A j \in 1..(i - 1) : ~IsRaised(q[j])]
    ELSE Returned(TRUE)

\* lines 64-90: the body of the loop for one entry
check_recipe(recipe) ==
    LET fields == [k \in 1..Len(required_fields) |->
                     LET found == field_in(required_fields[k], recipe)
                     IN IF IsRaised(found) THEN found
                        ELSE IF ~found.returned
                        THEN Raised("RecipeGenerationError", "missing required field")
                        ELSE found]
    IN IF IsRaised(FirstRaised(fields)) THEN FirstRaised(fields)
       ELSE IF recipe.t # "dict"
       THEN Raised("TypeError", "indices must be integers")
       ELSE IF GetItem(recipe, "ingredients").t # "list"
       THEN Raised("RecipeGenerationError", "ingredients is not a list")
       ELSE LET ings == GetItem(recipe, "ingredients").v
                checked == [j \in 1..Len(ings) |-> check_ingredient(ings[j])]
            IN IF IsRaised(FirstRaised(checked)) THEN FirstRaised(checked)
               ELSE IF GetItem(recipe, "instructions").t # "list"
               THEN Raised("RecipeGenerationError", "instructions is not a list")
               ELSE Returned(TRUE)

\* lines 41-92: the body of the try
parse_body(text) ==
    LET loaded == json_loads(text)
    IN IF IsRaised(loaded) THEN loaded
       ELSE LET data == loaded.returned
            IN IF data.t # "dict"
               THEN Raised("RecipeGenerationError", "Response is not a JSON object")
               ELSE IF ~HasKey(data, "recipes")
               THEN Raised("RecipeGenerationError", "Response missing 'recipes' key")
               ELSE LET entries == GetItem(data, "recipes")
                    IN IF entries.t # "list"
                       THEN Raised("RecipeGenerationError", "'recipes' is not a list")
                       ELSE IF Len(entries.v) = 0
                       THEN Raised("RecipeGenerationError", "No recipes returned")
                       ELSE LET checked == [i \in 1..Len(entries.v) |->
                                               check_recipe(entries.v[i])]
                            IN IF IsRaised(FirstRaised(checked))
                               THEN FirstRaised(checked)
                               ELSE Returned(entries)

\* a faulty variant of except_clauses: without the last except clause
except_json_only(outcome) ==
    IF IsReturned(outcome) THEN outcome
    ELSE IF outcome.raised = "JSONDecodeError"
    THEN Raised("RecipeGenerationError", "Invalid JSON response")
    ELSE outcome

\* lines 94-101: the except clauses
except_clauses(outcome) ==
    IF IsReturned(outcome) THEN outcome
    ELSE CASE outcome.raised = "JSONDecodeError" ->
                Raised("RecipeGenerationError", "Invalid JSON response")
           [] outcome.raised = "RecipeGenerationError" -> outcome
           [] OTHER -> Raised("RecipeGenerationError", "Failed to parse response")

parse_recipe_response(text) == except_clauses(parse_body(text))

(***************************************************************************)
(* models.Recipe                                                           *)
(***************************************************************************)
\* "easy"
Easy == PyStr(<<101, 97, 115, 121>>)

\* a Recipe row; the columns no operation of the model reads are left out
RecipeRow(id, name, cooking_time, difficulty, serving_size, cache_key, created_at) ==
    [id |-> id, name |-> name, cooking_time_minutes |-> cooking_time,
     difficulty |-> difficulty, serving_size |-> serving_size, source |-> "groq_ai",
     cache_key |-> cache_key, view_count |-> 0, created_at |-> created_at]

(***************************************************************************)
(* ingredient_service.normalize_ingredient_name                            *)
(***************************************************************************)
\* [a-z0-9\s\-]
IsKept(c) == (97 <= c /\ c <= 122) \/ (48 <= c /\ c <= 57) \/ IsSpace(c) \/ c = 45

\* re.sub(r'\s+', ' ', s)
RECURSIVE CollapseSpaces(_)
CollapseSpaces(str) ==
    IF str = <<>> THEN <<>>
    ELSE IF IsSpace(Head(str))
    THEN <<32>> \o CollapseSpaces(LStrip(str))
    ELSE <<Head(str)>> \o CollapseSpaces(Tail(str))

normalize_ingredient_name(name) ==
    CollapseSpaces(SelectSeq(Strip(StrLower(name)), IsKept))

(***************************************************************************)
(* recipe_generation_service.store_recipe_in_db                            *)
(*                                                                         *)
(* A session is the committed tables, the rows added or flushed and not    *)
(* yet committed, and whether a failed flush has left the transaction      *)
(* waiting for a rollback.  One counter stands for all id sequences.       *)
(***************************************************************************)
Session(committed_recipes, committed_tables, first_id, t) ==
    [recipes |-> committed_recipes, tables |-> committed_tables,
     new_recipes |-> {}, new_rows |-> {}, inactive |-> FALSE,
     next_id |-> first_id, now |-> t]

\* a flush or commit the database refuses: the transaction is rolled back
\* and the session refuses further work until Session.rollback()
flush_failed(db) == [db EXCEPT !.new_recipes = {}, !.new_rows = {}, !.inactive = TRUE]

\* db.commit()
commit(db) ==
    [db EXCEPT !.recipes = db.recipes \cup db.new_recipes,
               !.tables = db.tables \cup db.new_rows,
               !.new_recipes = {}, !.new_rows = {}]

\* the rows of a table a query of the session sees
Visible(db, table) == {r \in db.tables \cup db.new_rows : r.table = table}

FirstRow(rows) == CHOOSE r \in rows : \A o \in rows : r.id <= o.id

\* find_ingredient_by_name_or_synonym: the rows it would return the first of
find_ingredient_by_name_or_synonym(db, name) ==
    LET normalized_name == normalize_ingredient_name(name)
        by_name == {r \in Visible(db, "ingredients") : StrLower(r.name) = normalized_name}
    IN IF by_name # {} THEN by_name
       ELSE {r \in Visible(db, "ingredients") : normalized_name \in r.synonyms}

\* models.Recipe: the nullable=False columns that recipe_data fills
recipe_insertable(recipe_data) ==
    \A f \in {"name", "cooking_time_minutes", "difficulty", "serving_size"} :
        GetItem(recipe_data, f).t # "None"

\* lines 141-165: the loop over recipe_data["ingredients"]
RECURSIVE store_ingredients(_, _, _)
store_ingredients(db, recipe_id, ingredient_list) ==
    IF ingredient_list = <<>> THEN [db |-> db, outcome |-> Returned(TRUE)]
    ELSE LET ingredient_data == Head(ingredient_list)
             name == GetItem(ingredient_data, "name")
         IN IF name.t # "str"
            THEN [db |-> db, outcome |-> Raised("AttributeError", "lower")]
            ELSE
            LET ingredient_name == Strip(StrLower(name.v))
                found == find_ingredient_by_name_or_synonym(db, ingredient_name)
                taken == \E r \in Visible(db, "ingredients") : r.name = ingredient_name
                ingredient_id == IF found # {} THEN FirstRow(found).id ELSE db.next_id
                created == IF found # {} THEN {}
                           ELSE {[table |-> "ingredients", id |-> db.next_id,
                                  name |-> ingredient_name, synonyms |-> {},
                                  recipe_id |-> 0, other_id |-> 0]}
                link == [table |-> "recipe_ingredients", id |-> db.next_id + 1,
                         name |-> <<>>, synonyms |-> {},
                         recipe_id |-> recipe_id, other_id |-> ingredient_id]
            IN IF found = {} /\ taken
               THEN [db |-> flush_failed(db), outcome |-> Raised("IntegrityError", "ingredients.name")]
               ELSE store_ingredients(
                        [db EXCEPT !.new_rows = @ \cup created \cup {link},
                                   !.next_id = @ + 2],
                        recipe_id, Tail(ingredient_list))

\* models.RecipeDietaryTag has the composite primary key (recipe_id, tag_id):
\* a pending association is kept with id 0, a further pending one of the
\* same key with id 1, and the flush that would INSERT both is refused
pk_conflict(db) ==
    \E r \in db.new_rows : r.table = "recipe_dietary_tags" /\ r.id = 1

\* lines 169-187: the loop over dietary_tags
RECURSIVE store_dietary_tags(_, _, _)
store_dietary_tags(db, recipe_id, dietary_tags) ==
    IF dietary_tags = <<>> THEN [db |-> db, outcome |-> Returned(TRUE)]
    ELSE LET tag_name == Head(dietary_tags)
         IN IF tag_name.t # "str"
            THEN [db |-> db, outcome |-> Raised("AttributeError", "lower")]
            ELSE
            LET tag_name_lower == Strip(StrLower(tag_name.v))
                found == {r \in Visible(db, "dietary_tags") : StrLower(r.name) = tag_name_lower}
                tag_id == IF found # {} THEN FirstRow(found).id ELSE db.next_id
                created == IF found # {} THEN {}
                           ELSE {[table |-> "dietary_tags", id |-> db.next_id,
                                  name |-> tag_name_lower, synonyms |-> {},
                                  recipe_id |-> 0, other_id |-> 0]}
                first == [table |-> "recipe_dietary_tags", id |-> 0,
                          name |-> <<>>, synonyms |-> {},
                          recipe_id |-> recipe_id, other_id |-> tag_id]
                link == IF first \in db.new_rows THEN [first EXCEPT !.id = 1] ELSE first
            \* line 180: the flush of a new tag sends the pending associations
            IN IF found = {} /\ pk_conflict(db)
               THEN [db |-> flush_failed(db),
                     outcome |-> Raised("IntegrityError", "recipe_dietary_tags")]
               ELSE store_dietary_tags(
                        [db EXCEPT !.new_rows = @ \cup created \cup {link},
                                   !.next_id = @ + 1],
                        recipe_id, Tail(dietary_tags))

\* store_recipe_in_db: the session afterwards, what the call returned or
\* raised, and the id its Recipe row got from the first flush (0: none)
store_recipe_in_db(db, recipe_data, cache_key) ==
    LET recipe == RecipeRow(db.next_id, GetItem(recipe_data, "name"),
                            GetItem(recipe_data, "cooking_time_minutes"),
                            GetItem(recipe_data, "difficulty"),
                            GetItem(recipe_data, "serving_size"), cache_key, db.now)
        flushed == [db EXCEPT !.new_recipes = @ \cup {recipe}, !.next_id = @ + 1]
        dietary_tags == IF HasKey(recipe_data, "dietary_tags")
                        THEN GetItem(recipe_data, "dietary_tags") ELSE PyList(<<>>)
        Left(session, outcome) ==
            [db |-> session, outcome |-> outcome, recipe_id |-> db.next_id]
        \* lines 189-192
        Commit(with_tags) ==
            IF IsRaised(with_tags.outcome) THEN Left(with_tags.db, with_tags.outcome)
            ELSE IF pk_conflict(with_tags.db)
            THEN Left(flush_failed(with_tags.db),
                      Raised("IntegrityError", "recipe_dietary_tags"))
            ELSE Left(commit(with_tags.db), Returned(db.next_id))
        \* lines 168-187
        Tags(with_ingredients) ==
            IF IsRaised(with_ingredients.outcome)
            THEN Left(with_ingredients.db, with_ingredients.outcome)
            ELSE IF dietary_tags.t # "list"
            THEN Left(with_ingredients.db, Raised("TypeError", "not iterable"))
            ELSE Commit(store_dietary_tags(with_ingredients.db, db.next_id, dietary_tags.v))
    IN IF db.inactive
       THEN [db |-> db, outcome |-> Raised("PendingRollbackError", "flush"), recipe_id |-> 0]
       ELSE IF ~recipe_insertable(recipe_data)
       THEN [db |-> flush_failed(db), outcome |-> Raised("IntegrityError", "recipes"),
             recipe_id |-> 0]
       ELSE Tags(store_ingredients(flushed, db.next_id,
                                   GetItem(recipe_data, "ingredients").v))

(***************************************************************************)
(* recipe_generation_service.generate_recipes                              *)
(***************************************************************************)
\* the limiter of the GroqService and the clock, as generate_completion
\* reads and leaves them
Limiter(reqs, limit, t, history, w) ==
    [requests |-> reqs, max_requests |-> limit, now |-> t,
     dispatched |-> history, last_wait |-> w]

\* groq_service.py lines 105-145 run to the end; answers[k] is what the
\* provider does on the k-th call
RECURSIVE run_completion(_, _, _)
run_completion(g, lim, answers) ==
    IF g.pc # "running" THEN [gc |-> g, lim |-> lim]
    ELSE IF ~loop_continues(g) THEN [gc |-> on_exhausted(g), lim |-> lim]
    ELSE LET w == wait_if_needed(lim.requests, lim.max_requests, lim.now, 0)
             answer == answers[g.attempt + 1]
             waited == [lim EXCEPT !.requests = w.requests, !.now = w.now,
                                   !.dispatched = Append(@, w.now), !.last_wait = w]
         IN IF answer.ok
            THEN run_completion(on_success(g, answer.value), waited, answers)
            ELSE run_completion(on_failure(g, answer.value),
                                [waited EXCEPT !.now = @ + SleepSeconds(backoff(g))],
                                answers)

\* generate_completion with the default max_retries, as line 239 calls it
generate_completion(lim, answers) ==
    run_completion(GcStart(DefaultMaxRetries), lim, answers)

\* filters.get(key)
DictGet(d, k) == IF HasKey(d, k) THEN GetItem(d, k) ELSE PyNone

\* lines 224-232: extract_filters_from_dict and
\* build_recipe_generation_prompt, which unpacks a truthy range into two
build_recipe_generation_prompt(filters) ==
    LET cooking_time_range == DictGet(filters, "cooking_time_range")
    IN IF ~Truthy(cooking_time_range) THEN Returned(TRUE)
       ELSE IF cooking_time_range.t = "int"
       THEN Raised("TypeError", "cannot unpack")
       ELSE IF Len(cooking_time_range.v) # 2
       THEN Raised("ValueError", "unpack")
       ELSE Returned(TRUE)

\* a faulty variant of batch_failed: any failed draft fails the batch
batch_failed_on_any(stored_recipes, recipes_data) ==
    Len(stored_recipes) < Len(recipes_data)

\* line 270
batch_failed(stored_recipes, recipes_data) == Len(stored_recipes) = 0

\* lines 261-268: the loop over recipes_data; log keeps, for each draft, what
\* its store_recipe_in_db did and the rows it left in the session
RECURSIVE store_drafts(_, _, _)
store_drafts(db, recipes_data, cache_key) ==
    LET Kept(first, rest) ==
            [db |-> rest.db,
             stored_recipes |-> (IF IsReturned(first.outcome)
                                 THEN <<first.recipe_id>> ELSE <<>>) \o rest.stored_recipes,
             log |-> <<[outcome |-> first.outcome, recipe_id |-> first.recipe_id,
                        made |-> first.db.new_rows \ db.new_rows]>> \o rest.log]
        Rest(first) == Kept(first, store_drafts(first.db, Tail(recipes_data), cache_key))
    IN IF recipes_data = <<>> THEN [db |-> db, stored_recipes |-> <<>>, log |-> <<>>]
       ELSE Rest(store_recipe_in_db(db, Head(recipes_data), cache_key))

\* what a call of generate_recipes leaves behind
Generated(outcome, db, done, cache_key, recipes_data, log) ==
    [outcome |-> outcome, db |-> db, gc |-> done.gc, lim |-> done.lim,
     cache_key |-> cache_key, recipes_data |-> recipes_data, log |-> log]

generate_recipes(db, lim, ingredients, filters, answers) ==
    LET not_called == [gc |-> GcIdle, lim |-> lim]
        normalized_ingredients ==
            [i \in 1..Len(ingredients) |-> PyStr(Strip(StrLower(ingredients[i].v)))]
        filters_or_empty == IF Truthy(filters) THEN filters ELSE PyDict(<<>>)
        Failed(outcome, done) == Generated(outcome, db, done, SqlNull, <<>>, <<>>)
        \* lines 270-275
        Result(done, recipes_data, cache_key, kept) ==
            Generated(IF batch_failed(kept.stored_recipes, recipes_data)
                      THEN Raised("RecipeGenerationError",
                                  "Failed to store any recipes in database")
                      ELSE Returned(kept.stored_recipes),
                      kept.db, done, cache_key, recipes_data, kept.log)
        \* lines 258-268
        Store(done, recipes_data, cache_key) ==
            Result(done, recipes_data, cache_key,
                   store_drafts([db EXCEPT !.now = done.lim.now], recipes_data, cache_key))
        \* lines 252-258
        Parsed(done, recipes_data) ==
            IF IsRaised(recipes_data) THEN Failed(recipes_data, done)
            ELSE Store(done, recipes_data.returned.v,
                       generate_cache_key(normalized_ingredients, filters_or_empty))
        \* lines 246-252 and 279-281
        Completed(done) ==
            IF done.gc.pc = "raised"
            THEN Failed(Raised("RecipeGenerationError", "Failed to generate recipes"), done)
            ELSE IF done.gc.result.value.choices = <<>>
            THEN Failed(Raised("RecipeGenerationError", "Empty response from Groq API"), done)
            ELSE Parsed(done, parse_recipe_response(done.gc.result.value.choices[1]))
        \* lines 237-244
        Prompted(prompt) ==
            IF IsRaised(prompt) THEN Failed(prompt, not_called)
            ELSE Completed(generate_completion(lim, answers))
    IN IF ingredients = <<>>
       THEN Failed(Raised("RecipeGenerationError", "At least one ingredient is required"),
                   not_called)
       ELSE Prompted(build_recipe_generation_prompt(filters_or_empty))

(***************************************************************************)
(* recipe_routes.calculate_match_percentage                                *)
(*                                                                         *)
(* A percentage with one decimal is counted in tenths: 333 is 33.3.        *)
(***************************************************************************)
\* round(100 * num / den, 1) in tenths: the nearest tenth, a tie going to
\* the even one
round(num, den) ==
    LET q == (1000 * num) \div den
        r == (1000 * num) % den
    IN IF 2 * r > den \/ (2 * r = den /\ q % 2 = 1) THEN q + 1 ELSE q

\* a faulty variant of required_ingredients: optional ingredients count too
every_ingredient(recipe_ingredients) == recipe_ingredients

\* lines 51-58: the ingredients the percentage is taken over
required_ingredients(recipe_ingredients) ==
    LET required == SelectSeq(recipe_ingredients, LAMBDA ri : ~ri.is_optional)
    IN IF required = <<>> THEN recipe_ingredients ELSE required

\* recipe_ingredients: the name and is_optional of each RecipeIngredient
calculate_match_percentage(recipe_ingredients, user_ingredients) ==
    IF recipe_ingredients = <<>> THEN 0
    ELSE LET normalized_user_ingredients ==
                 {normalize_ingredient_name(user_ingredients[i]) :
                     i \in 1..Len(user_ingredients)}
             required == required_ingredients(recipe_ingredients)
             matching_count ==
                 Len(SelectSeq(required,
                               LAMBDA ri : normalize_ingredient_name(ri.name)
                                              \in normalized_user_ingredients))
         IN round(matching_count, Len(required))

(***************************************************************************)
(* recipe_routes.search_recipes: the recipes it works on (lines 212-241)   *)
(* and the page it answers with (lines 243-301)                            *)
(***************************************************************************)
\* RecipeSearchRequest.page_size
DefaultPageSize == 20

\* a faulty variant of cache_hit: the cache is never used
cache_ignored(cached_recipes) == FALSE

\* line 230: if cached_recipes
cache_hit(cached_recipes) == Truthy(cached_recipes)

\* lines 212-228: the normalized ingredients, the fingerprint and what the
\* lookup of the fingerprint returned
lookup_recipes(db, ingredients, filters) ==
    LET normalized_ingredients ==
            [i \in 1..Len(ingredients) |->
                 PyStr(normalize_ingredient_name(ingredients[i].v))]
        filters_or_empty == IF Truthy(filters) THEN filters ELSE PyDict(<<>>)
        Looked(cache_key) ==
            [cache_key |-> cache_key,
             normalized_ingredients |-> normalized_ingredients,
             filters |-> filters_or_empty,
             cached_recipes |->
                 get_cached_recipes(db.recipes, db.now, cache_key, DefaultMaxAgeDays)]
    IN Looked(generate_cache_key(normalized_ingredients, filters_or_empty))

\* lines 230-241: the cached recipes, or what generate_recipes did on the
\* session and the limiter as they are when it is called
recipes_for(db, lim, looked, answers) ==
    LET \* line 236: the Recipe objects generate_recipes returned
        Made(generated) ==
            [cache_key |-> looked.cache_key, hit |-> FALSE, generated |-> generated,
             normalized_ingredients |-> looked.normalized_ingredients,
             filters |-> looked.filters,
             recipes |-> IF IsRaised(generated.outcome) THEN <<>>
                         ELSE [i \in 1..Len(generated.outcome.returned) |->
                                  CHOOSE r \in generated.db.recipes :
                                     r.id = generated.outcome.returned[i]]]
    IN IF cache_hit(looked.cached_recipes)
       THEN [cache_key |-> looked.cache_key, hit |-> TRUE,
             generated |-> Generated(Returned(<<>>), db, [gc |-> GcIdle, lim |-> lim],
                                     looked.cache_key, <<>>, <<>>),
             normalized_ingredients |-> looked.normalized_ingredients,
             filters |-> looked.filters,
             recipes |-> looked.cached_recipes.v]
       ELSE Made(generate_recipes(db, lim, looked.normalized_ingredients,
                                  looked.filters, answers))

\* lines 212-241: the fingerprint looked up, whether the cache answered,
\* and what generate_recipes did when it did not
search_recipes(db, lim, ingredients, filters, answers) ==
    recipes_for(db, lim, lookup_recipes(db, ingredients, filters), answers)

\* a faulty variant of time_in_range: the bounds are excluded
time_inside_range(time_range, r) ==
    IF time_range.v[1].t # "int" \/ time_range.v[2].t # "int" THEN "TypeError"
    ELSE IF time_range.v[1].v < r.cooking_time_minutes.v
            /\ r.cooking_time_minutes.v < time_range.v[2].v THEN "yes" ELSE "no"

\* min_time <= r.cooking_time_minutes <= max_time, a chained comparison: the
\* upper bound is looked at only when the lower one holds
time_in_range(time_range, r) ==
    LET min_time == time_range.v[1]
        max_time == time_range.v[2]
    IN IF min_time.t # "int" THEN "TypeError"
       ELSE IF ~(min_time.v <= r.cooking_time_minutes.v) THEN "no"
       ELSE IF max_time.t # "int" THEN "TypeError"
       ELSE IF r.cooking_time_minutes.v <= max_time.v THEN "yes" ELSE "no"

\* lines 247-254
cooking_time_filter(recipes, filters) ==
    LET time_range == DictGet(filters, "cooking_time_range")
        applies == IF Truthy(time_range) /\ time_range.t = "list"
                   THEN Len(time_range.v) = 2 ELSE FALSE
    IN IF ~applies THEN Returned(recipes)
       ELSE IF \E i \in 1..Len(recipes) : time_in_range(time_range, recipes[i]) = "TypeError"
       THEN Raised("TypeError", "<=")
       ELSE Returned(SelectSeq(recipes, LAMBDA r : time_in_range(time_range, r) = "yes"))

\* rt.tag.name for rt in r.dietary_tags
TagNames(db, r) ==
    {tag.name : tag \in {t \in Visible(db, "dietary_tags") :
                            \E rt \in Visible(db, "recipe_dietary_tags") :
                               rt.recipe_id = r.id /\ rt.other_id = t.id}}

\* lines 257-262; the filters of the model give a list or nothing
dietary_filter(db, recipes, filters) ==
    LET prefs == DictGet(filters, "dietary_preferences")
    IN IF ~Truthy(prefs) THEN Returned(recipes)
       ELSE IF prefs.t # "list" THEN Raised("TypeError", "not iterable")
       ELSE IF \E i \in 1..Len(prefs.v) : prefs.v[i].t # "str"
       THEN Raised("AttributeError", "lower")
       ELSE LET dietary_prefs == {StrLower(prefs.v[i].v) : i \in 1..Len(prefs.v)}
            IN Returned(SelectSeq(recipes,
                   LAMBDA r : dietary_prefs \subseteq {StrLower(n) : n \in TagNames(db, r)}))

\* math.ceil(total / page_size) if total > 0 else 0
total_pages_of(total, page_size) ==
    IF total > 0 THEN (total + page_size - 1) \div page_size ELSE 0

\* s[start_idx:end_idx]
Slice(s, start_idx, end_idx) ==
    SubSeq(s, start_idx + 1, IF end_idx < Len(s) THEN end_idx ELSE Len(s))

\* recipe.recipe_ingredients: the ingredient name and is_optional of each
\* (the drafts of the model give no is_optional, which stores False)
RecipeIngredients(db, r) ==
    LET links == RowsById({ri \in Visible(db, "recipe_ingredients") : ri.recipe_id = r.id})
    IN [i \in 1..Len(links) |->
           [name |-> (CHOOSE g \in Visible(db, "ingredients") :
                         g.id = links[i].other_id).name,
            is_optional |-> FALSE]]

\* enrich_recipe_with_details: what the claims read of a RecipeResponse
enrich_recipe_with_details(db, r, user_ingredients) ==
    [id |-> r.id,
     cooking_time_minutes |-> r.cooking_time_minutes.v,
     dietary_tags |-> TagNames(db, r),
     match_percentage |->
         calculate_match_percentage(
             RecipeIngredients(db, r),
             [i \in 1..Len(user_ingredients) |-> user_ingredients[i].v])]

\* a faulty variant of sort_by_match: the page is left in retrieval order
left_in_order(enriched_recipes) == enriched_recipes

\* list.sort(key=match_percentage, reverse=True): stable, an element stays
\* ahead of the equal ones that followed it
RECURSIVE InsertByMatch(_, _)
InsertByMatch(x, q) ==
    IF q = <<>> THEN <<x>>
    ELSE IF x.match_percentage >= Head(q).match_percentage THEN <<x>> \o q
    ELSE <<Head(q)>> \o InsertByMatch(x, Tail(q))

RECURSIVE sort_by_match(_)
sort_by_match(enriched_recipes) ==
    IF enriched_recipes = <<>> THEN <<>>
    ELSE InsertByMatch(Head(enriched_recipes), sort_by_match(Tail(enriched_recipes)))

\* lines 243-301: filters, pagination, enrichment and the sort of the page;
\* found is what search_recipes worked out up to line 241
search_page(found, page, page_size) ==
    LET db == found.generated.db
        Page(filtered_recipes, paginated_recipes) ==
            [recipes |->
                 sort_by_match(
                     [i \in 1..Len(paginated_recipes) |->
                          enrich_recipe_with_details(db, paginated_recipes[i],
                                                     found.normalized_ingredients)]),
             total |-> Len(filtered_recipes),
             page |-> page, page_size |-> page_size,
             total_pages |-> total_pages_of(Len(filtered_recipes), page_size)]
        Answer(filtered_recipes) ==
            IF IsRaised(filtered_recipes) THEN filtered_recipes
            ELSE Returned(Page(filtered_recipes.returned,
                               Slice(filtered_recipes.returned, (page - 1) * page_size,
                                     (page - 1) * page_size + page_size)))
        Diet(timed) ==
            IF IsRaised(timed) THEN timed
            ELSE Answer(dietary_filter(db, timed.returned, found.filters))
    IN IF IsRaised(found.generated.outcome) THEN found.generated.outcome
       ELSE Diet(cooking_time_filter(found.recipes, found.filters))

(***************************************************************************)
(* recipe_routes.get_recipe_detail                                         *)
(***************************************************************************)
\* line 365: db.query(Recipe).filter(Recipe.id == recipe_id).first()
recipe_by_id(rows, recipe_id) == {r \in rows : r.id = recipe_id}

\* lines 374-375: recipe.view_count += 1 on the object as it was loaded, and
\* the UPDATE that db.commit() sends with the value computed
increment_view_count(rows, recipe_id, seen) ==
    {IF r.id = recipe_id THEN [r EXCEPT !.view_count = seen + 1] ELSE r : r \in rows}

(***************************************************************************)
(* rating_service                                                          *)
(***************************************************************************)
\* a row of recipe_ratings
RecipeRating(id, user_id, recipe_id, rating) ==
    [id |-> id, user_id |-> user_id, recipe_id |-> recipe_id, rating |-> rating]

\* lines 57-65: db.add(new_rating), db.commit(); no row is ever deleted
\* here, so the id sequence stands at the number of rows
new_rating(rows, user_id, recipe_id, rating_value) ==
    LET row == RecipeRating(Cardinality(rows) + 1, user_id, recipe_id, rating_value)
    IN [ratings |-> rows \cup {row}, outcome |-> Returned(row), replaced |-> 0]

\* a faulty variant of create_or_update_rating: it never looks for the
\* rating the user gave before
always_create(rows, user_id, recipe_id, rating_value) ==
    IF ~(1 <= rating_value /\ rating_value <= 5)
    THEN [ratings |-> rows, replaced |-> 0,
          outcome |-> Raised("ValueError", "Rating must be between 1 and 5")]
    ELSE new_rating(rows, user_id, recipe_id, rating_value)

\* create_or_update_rating: the table afterwards, what the call returned or
\* raised, and the value it replaced (0: none)
create_or_update_rating(rows, user_id, recipe_id, rating_value) ==
    LET existing == {r \in rows : r.user_id = user_id /\ r.recipe_id = recipe_id}
        existing_rating == FirstRow(existing)
    IN IF ~(1 <= rating_value /\ rating_value <= 5)
       THEN [ratings |-> rows, replaced |-> 0,
             outcome |-> Raised("ValueError", "Rating must be between 1 and 5")]
       ELSE IF existing # {}
       THEN [ratings |-> (rows \ {existing_rating})
                            \cup {[existing_rating EXCEPT !.rating = rating_value]},
             outcome |-> Returned([existing_rating EXCEPT !.rating = rating_value]),
             replaced |-> existing_rating.rating]
       ELSE new_rating(rows, user_id, recipe_id, rating_value)

\* SUM(rating) over rows
RECURSIVE SumRatings(_)
SumRatings(rows) ==
    IF rows = {} THEN 0
    ELSE LET r == CHOOSE x \in rows : TRUE
         IN r.rating + SumRatings(rows \ {r})

\* get_recipe_ratings, lines 88-94: the average as the fraction num / den
\* (None without ratings) and the count
get_recipe_ratings(rows, recipe_id) ==
    LET of_recipe == {r \in rows : r.recipe_id = recipe_id}
    IN [average_rating |-> IF of_recipe = {} THEN <<>>
                           ELSE <<[num |-> SumRatings(of_recipe),
                                   den |-> Cardinality(of_recipe)]>>,
        total_ratings |-> Cardinality(of_recipe)]

(***************************************************************************)
(* State                                                                   *)
(***************************************************************************)
VARIABLES
    \* the database and the clock
    recipes,            \* committed rows of the recipes table
    now,                \* the current time, in seconds
    \* the RateLimiter
    requests,           \* RateLimiter.requests
    max_requests,       \* RateLimiter.max_requests
    dispatched,         \* every timestamp the limiter ever recorded, in order
    last_wait,          \* what the latest wait_if_needed found and did
    ticks,              \* idle clock steps taken
    \* the GroqService
    gc,                 \* the frame of the running generate_completion
    completions,        \* calls of generate_completion so far
    \* parse_recipe_response
    response_text,      \* its argument
    parsed,             \* what it returned or raised
    \* the other tables and the sequences of the database
    tables,             \* committed rows of ingredients, recipe_ingredients,
                        \* dietary_tags and recipe_dietary_tags
    next_id,            \* the next value of the id sequences
    \* generate_recipes and search_recipes
    batch,              \* the latest call of generate_recipes
    search,             \* the latest call of search_recipes
    searches,           \* calls of search_recipes so far
    days,               \* clock steps taken between searches
    \* the latest call of get_cached_recipes
    cache_lookup,       \* its arguments and what it returned

    \* two related calls of generate_cache_key
    key_ingredients,    \* ingredients of the latest call
    key_filters,        \* filters of the latest call
    key_out,            \* what the latest call returned (NoKey before any call)
    key_op,             \* how the latest call's arguments were obtained
    key_prev,           \* arguments and result of the call before it
    key_change,         \* the value replaced, added or removed, and its replacement

    \* the latest call of calculate_match_percentage
    match,              \* its arguments and what it returned
    \* normalize_ingredient_name applied once and again
    normalized,         \* the name, its normal form and the normal form of that
    \* the latest call of invalidate_cache or cleanup_expired_cache
    cache_op,           \* its arguments, its count and the rows it found
    \* the requests to GET /api/recipes/{recipe_id}
    detail,             \* where each request is, and the view_count it loaded
    \* the recipe_ratings table and the latest create_or_update_rating
    ratings,            \* committed rows of recipe_ratings
    rating_call,        \* its arguments and what it returned or raised
    \* requests to POST /api/recipes/search served at the same time
    race,               \* where each request is, and what it looked up and got
    \* callers of RateLimiter.wait_if_needed that run at the same time
    callers,            \* the frame of each caller: where it is, its now
    overlapped,         \* whether a caller ever entered while another was inside
    \* calls of store_recipe_in_db that run at the same time
    persists            \* the session and the frame of each call

keyVars == <<key_ingredients, key_filters, key_out, key_op, key_prev, key_change>>

cacheVars == <<recipes, cache_lookup>>

limiterVars == <<requests, max_requests, dispatched, last_wait, ticks>>

clientVars == <<gc, completions>>

parseVars == <<response_text, parsed>>

dbVars == <<tables, next_id>>

searchVars == <<batch, search, searches, days>>

restVars == <<parseVars, dbVars, searchVars>>

matchVars == <<match>>

\* the components that are exercised on their own
normalizeVars == <<normalized>>

sweepVars == <<cache_op>>

detailVars == <<detail>>

ratingVars == <<ratings, rating_call>>

\* the components in which requests run at the same time
concVars == <<race, callers, overlapped, persists>>

otherVars == <<matchVars, normalizeVars, sweepVars, detailVars, ratingVars, concVars>>

vars == <<keyVars, cacheVars, now, limiterVars, clientVars, restVars, otherVars>>

\* the parts of the state a specification leaves alone
KeyIdle ==
    /\ key_ingredients = <<>>
    /\ key_filters = PyNone
    /\ key_out = [sha256 |-> <<<<"no call", PyNone>>>>]
    /\ key_op = "none"
    /\ key_prev = [ingredients |-> <<>>, filters |-> PyNone,
                   key |-> [sha256 |-> <<<<"no call", PyNone>>>>]]
    /\ key_change = [old |-> PyNone, new |-> PyNone]

CacheIdle ==
    /\ recipes = {}
    /\ cache_lookup = [cache_key |-> SqlNull, max_age_days |-> 0, result |-> PyNone]

NoWait == [requests |-> <<>>, now |-> 0, slept |-> 0, found |-> 0, entered |-> 0]

LimiterIdle ==
    /\ requests = <<>>
    /\ max_requests = GroqRequestsPerMinute
    /\ dispatched = <<>>
    /\ last_wait = NoWait
    /\ ticks = 0

ClientIdle ==
    /\ gc = GcIdle
    /\ completions = 0

NotParsed == [not_called |-> TRUE]

ParseIdle ==
    /\ response_text = PyNone
    /\ parsed = NotParsed

DbIdle ==
    /\ tables = {}
    /\ next_id = 1

NoBatch == [not_called |-> TRUE]

NoSearch == [not_called |-> TRUE, earlier |-> {}]

SearchIdle ==
    /\ batch = NoBatch
    /\ search = NoSearch
    /\ searches = 0
    /\ days = 0

RestIdle == ParseIdle /\ DbIdle /\ SearchIdle

NoMatch == [not_called |-> TRUE]

MatchIdle == match = NoMatch

NotNormalized == [not_called |-> TRUE]

NormalizeIdle == normalized = NotNormalized

NoCacheOp == [op |-> "none"]

SweepIdle == cache_op = NoCacheOp

\* a request that has not come in
NoFetch == [pc |-> "idle", recipe_id |-> 0, seen |-> 0]

DetailIdle == detail = [p \in 1..MaxDetailRequests |-> NoFetch]

NoRating == [not_called |-> TRUE]

RatingIdle == ratings = {} /\ rating_call = NoRating

\* a search request that has not come in
NoRace == [pc |-> "idle"]

RaceIdle == race = [p \in 1..MaxRaceRequests |-> NoRace]

\* a caller that is not inside wait_if_needed
NoCaller == [pc |-> "idle", now |-> 0, kept |-> <<>>, wake_at |-> 0, slept |-> FALSE]

WindowIdle == callers = [c \in 1..MaxCallers |-> NoCaller] /\ overlapped = FALSE

\* a call of store_recipe_in_db that has not begun
NoPersist ==
    [pc |-> "idle", recipe_data |-> PyNone, recipe_id |-> 0, todo |-> <<>>,
     new_recipes |-> {}, new_rows |-> {}, outcome |-> PyNone, during |-> {},
     began_on |-> {}]

UpsertIdle == persists = [s \in 1..MaxPersists |-> NoPersist]

ConcIdle == RaceIdle /\ WindowIdle /\ UpsertIdle

OtherIdle ==
    MatchIdle /\ NormalizeIdle /\ SweepIdle /\ DetailIdle /\ RatingIdle /\ ConcIdle

(***************************************************************************)
(* Calls of generate_cache_key on related requests                         *)
(***************************************************************************)
NoKey == [sha256 |-> <<<<"no call", PyNone>>>>]

NoChange == [old |-> PyNone, new |-> PyNone]

\* "a", "A", " a", "b", "ab"
IngredientNames == {PyStr(s) : s \in {<<97>>, <<65>>, <<32, 97>>, <<98>>, <<97, 98>>}}

SeqsOf(S, lo, hi) == UNION {[1..k -> S] : k \in lo..hi}

\* search_recipes and generate_recipes both refuse an empty ingredient list
IngredientLists == SeqsOf(IngredientNames, 1, MaxIngredients)

\* "v", "w", "V"
PreferenceNames == {PyStr(s) : s \in {<<118>>, <<119>>, <<86>>}}

PreferenceValues ==
    {PyNone} \cup {PyList([i \in 1..Len(l) |-> PyStr(l[i])]) :
                      l \in {<<>>, <<<<118>>>>, <<<<118>>, <<119>>>>,
                             <<<<119>>, <<118>>>>, <<<<86>>, <<118>>>>}}

BoundValues == {PyInt(10), PyInt(20), PyInt(30), PyNone}

RangeValues ==
    {PyNone} \cup {PyList(l) : l \in {<<>>, <<PyInt(10)>>, <<PyInt(10), PyInt(30)>>,
                                     <<PyInt(20), PyInt(30)>>, <<PyInt(10), PyNone>>}}

FilterValuesOf(k) ==
    IF k = "dietary_preferences" THEN PreferenceValues ELSE RangeValues

FilterKeys == {"dietary_preferences", "cooking_time_range"}

FilterDicts ==
    {PyNone, PyDict(<<>>)}
    \cup {PyDict(<<<<"dietary_preferences", p>>>>) : p \in PreferenceValues}
    \cup {PyDict(<<<<"cooking_time_range", r>>>>) : r \in RangeValues}
    \cup {PyDict(<<<<"dietary_preferences", p>>, <<"cooking_time_range", r>>>>) :
             p \in PreferenceValues, r \in RangeValues}
    \cup {PyDict(<<<<"cooking_time_range", r>>, <<"dietary_preferences", p>>>>) :
             p \in PreferenceValues, r \in RangeValues}

Perms(s) == {[i \in 1..Len(s) |-> s[p[i]]] : p \in Permutations(1..Len(s))}

\* the same filters with the keys inserted in another order and the
\* dietary_preferences list in another order
Reorderings(f) ==
    IF f.t # "dict" THEN {f}
    ELSE {PyDict([i \in 1..Len(q) |->
                    IF q[i][1] = "dietary_preferences" /\ q[i][2].t = "list"
                    THEN <<q[i][1], PyList(l)>> ELSE q[i]]) :
             q \in Perms(f.v),
             l \in IF HasKey(f, "dietary_preferences")
                      /\ GetItem(f, "dietary_preferences").t = "list"
                   THEN Perms(GetItem(f, "dietary_preferences").v) ELSE {<<>>}}

SetItem(f, k, v) == PyDict([i \in 1..Len(f.v) |-> IF f.v[i][1] = k THEN <<k, v>> ELSE f.v[i]])

RECURSIVE DelPair(_, _)
DelPair(s, k) ==
    IF s = <<>> THEN <<>>
    ELSE IF Head(s)[1] = k THEN Tail(s) ELSE <<Head(s)>> \o DelPair(Tail(s), k)

KeyInit ==
    /\ CacheIdle /\ now = 0 /\ LimiterIdle /\ ClientIdle /\ RestIdle /\ OtherIdle
    /\ key_ingredients \in IngredientLists
    /\ key_filters \in FilterDicts
    /\ key_out = NoKey
    /\ key_op = "none"
    /\ key_prev = [ingredients |-> <<>>, filters |-> PyNone, key |-> NoKey]
    /\ key_change = NoChange

\* the call with changed arguments, remembering the one before
KeyCall(op, ingredients, filters, old, new) ==
    /\ key_op = "first"
    /\ key_prev' = [ingredients |-> key_ingredients, filters |-> key_filters,
                    key |-> key_out]
    /\ key_ingredients' = ingredients
    /\ key_filters' = filters
    /\ key_out' = generate_cache_key(ingredients, filters)
    /\ key_op' = op
    /\ key_change' = [old |-> old, new |-> new]
    /\ UNCHANGED <<cacheVars, now, limiterVars, clientVars, restVars, otherVars>>

GenerateKey ==
    /\ key_op = "none"
    /\ key_out' = generate_cache_key(key_ingredients, key_filters)
    /\ key_op' = "first"
    /\ UNCHANGED <<key_ingredients, key_filters, key_prev, key_change>>
    /\ UNCHANGED <<cacheVars, now, limiterVars, clientVars, restVars, otherVars>>

GenerateKeyReordered ==
    \E l \in Perms(key_ingredients), f \in Reorderings(key_filters) :
        KeyCall("reorder", l, f, PyNone, PyNone)

GenerateKeyChangedIngredient ==
    \E i \in 1..Len(key_ingredients), n \in IngredientNames :
        /\ n # key_ingredients[i]
        /\ KeyCall("change_ingredient", [key_ingredients EXCEPT ![i] = n], key_filters,
                   key_ingredients[i], n)

GenerateKeyChangedPreference ==
    /\ key_filters.t = "dict"
    /\ HasKey(key_filters, "dietary_preferences")
    /\ GetItem(key_filters, "dietary_preferences").t = "list"
    /\ LET l == GetItem(key_filters, "dietary_preferences").v
       IN \E j \in 1..Len(l), p \in PreferenceNames :
            /\ p # l[j]
            /\ KeyCall("change_preference", key_ingredients,
                       SetItem(key_filters, "dietary_preferences",
                               PyList([l EXCEPT ![j] = p])),
                       l[j], p)

GenerateKeyChangedBound ==
    /\ key_filters.t = "dict"
    /\ HasKey(key_filters, "cooking_time_range")
    /\ GetItem(key_filters, "cooking_time_range").t = "list"
    /\ LET r == GetItem(key_filters, "cooking_time_range").v
       IN \E b \in 1..Len(r), x \in BoundValues :
            /\ x # r[b]
            /\ KeyCall("change_bound", key_ingredients,
                       SetItem(key_filters, "cooking_time_range",
                               PyList([r EXCEPT ![b] = x])),
                       r[b], x)

GenerateKeyAddedFilter ==
    \E k \in FilterKeys :
        /\ IF key_filters.t = "None" THEN TRUE ELSE ~HasKey(key_filters, k)
        /\ \E v \in FilterValuesOf(k) :
             KeyCall("add_filter", key_ingredients,
                     PyDict(Append(IF key_filters.t = "None" THEN <<>> ELSE key_filters.v,
                                   <<k, v>>)),
                     PyNone, v)

GenerateKeyRemovedFilter ==
    /\ key_filters.t = "dict"
    /\ \E k \in FilterKeys :
        /\ HasKey(key_filters, k)
        /\ KeyCall("remove_filter", key_ingredients, PyDict(DelPair(key_filters.v, k)),
                   GetItem(key_filters, k), PyNone)

KeyNext ==
    \/ GenerateKey
    \/ GenerateKeyReordered
    \/ GenerateKeyChangedIngredient
    \/ GenerateKeyChangedPreference
    \/ GenerateKeyChangedBound
    \/ GenerateKeyAddedFilter
    \/ GenerateKeyRemovedFilter

SpecKey == KeyInit /\ [][KeyNext]_vars

(***************************************************************************)
(* Claims about generate_cache_key                                         *)
(***************************************************************************)
\* C3: generate_cache_key returns the same fingerprint for every reordering
\* of the ingredient list, of the dietary_preferences list and of the
\* insertion order of the filter keys.
C3_ReorderInvariant ==
    key_op = "reorder" => key_out = key_prev.key

C3_Witness ==
    /\ key_op = "reorder"
    /\ key_ingredients # key_prev.ingredients
    /\ key_filters.t = "dict"
    /\ Len(key_filters.v) = 2
    /\ key_filters.v[1] # key_prev.filters.v[1]
    /\ GetItem(key_filters, "dietary_preferences")
         # GetItem(key_prev.filters, "dietary_preferences")
    /\ key_out # NoKey

\* C4 as stated: changing any single ingredient, any dietary preference or
\* either bound of cooking_time_range, or adding or removing a filter,
\* changes the fingerprint.
C4_AnyChangeChangesKey ==
    key_op \in {"change_ingredient", "change_preference", "change_bound",
                "add_filter", "remove_filter"}
        => key_out # key_prev.key

\* C4 as amended: the fingerprint changes when an ingredient is replaced by
\* one that differs after lower-casing and trimming, when a dietary
\* preference or a bound of cooking_time_range is replaced by another value,
\* and when a filter with a non-empty value is added or removed.
C4_EffectiveChangeChangesKey ==
    /\ key_op = "change_ingredient"
       /\ Strip(StrLower(key_change.old.v)) # Strip(StrLower(key_change.new.v))
           => key_out # key_prev.key
    /\ key_op \in {"change_preference", "change_bound"} => key_out # key_prev.key
    /\ key_op = "add_filter" /\ Truthy(key_change.new) => key_out # key_prev.key
    /\ key_op = "remove_filter" /\ Truthy(key_change.old) => key_out # key_prev.key

C4_Witness ==
    /\ key_op = "change_bound"
    /\ Len(GetItem(key_filters, "cooking_time_range").v) = 2
    /\ key_change.old = PyInt(30)
    /\ key_change.new = PyInt(20)
    /\ key_out # key_prev.key

\* a cooking_time_range without both of its bounds: fewer than two elements,
\* or a null among them
LacksBound(v) ==
    IF v.t # "list" THEN FALSE
    ELSE /\ \A i \in 1..Len(v.v) : v.v[i].t \in {"int", "None"}
         /\ Len(v.v) < 2 \/ \E i \in 1..Len(v.v) : v.v[i].t = "None"

\* C26: generate_cache_key hashes cooking_time_range only when both bounds
\* are present: adding or removing a cooking_time_range that lacks a bound
\* (one element, or a null bound) leaves the fingerprint as it is without
\* any cooking_time_range.
C26_IncompleteRangeIgnored ==
    /\ key_op = "add_filter" /\ LacksBound(key_change.new) => key_out = key_prev.key
    /\ key_op = "remove_filter" /\ LacksBound(key_change.old) => key_out = key_prev.key

(***************************************************************************)
(* Calls of get_cached_recipes against a store                             *)
(***************************************************************************)
\* fingerprints of three requests: ["a"], ["b"], and ["a"] with a range
CacheKeys ==
    {generate_cache_key(<<PyStr(<<97>>)>>, PyNone),
     generate_cache_key(<<PyStr(<<98>>)>>, PyDict(<<>>)),
     generate_cache_key(<<PyStr(<<97>>)>>,
                        PyDict(<<<<"cooking_time_range", PyList(<<PyInt(10), PyInt(30)>>)>>>>))}

\* the unused fingerprint is looked up and never stored
StoredKeys == {k \in CacheKeys : Len(k.sha256) = 1} \cup {SqlNull}

CacheEpoch == 10 * SecondsPerDay

\* one hour, exactly seven days, seven days and a second, ten days
CacheAges == {3600, 7 * SecondsPerDay, 7 * SecondsPerDay + 1, 10 * SecondsPerDay}

CacheStores ==
    UNION {{{RecipeRow(i, PyStr(<<114>>), PyInt(30), Easy, PyInt(2), f[i].k,
                       CacheEpoch - f[i].age) : i \in 1..n} :
              f \in [1..n -> [k : StoredKeys, age : CacheAges]]} : n \in 0..MaxCacheRows}

CacheInit ==
    /\ KeyIdle /\ OtherIdle /\ LimiterIdle /\ ClientIdle /\ RestIdle
    /\ recipes \in CacheStores
    /\ now = CacheEpoch
    /\ cache_lookup = [cache_key |-> SqlNull, max_age_days |-> 0, result |-> PyNone]

GetCachedRecipes ==
    \E k \in CacheKeys, d \in {DefaultMaxAgeDays, 1} :
        /\ cache_lookup' = [cache_key |-> k, max_age_days |-> d,
                            result |-> get_cached_recipes(recipes, now, k, d)]
        /\ UNCHANGED <<recipes, now>>
        /\ UNCHANGED <<keyVars, otherVars, limiterVars, clientVars, restVars>>

CacheNext == GetCachedRecipes

SpecCache == CacheInit /\ [][CacheNext]_vars

(***************************************************************************)
(* Claims about get_cached_recipes                                         *)
(***************************************************************************)
Looked == cache_lookup.max_age_days > 0

\* the rows a lookup is to return: the fingerprint matches and the row is
\* no older than max_age
Fresh(k, d) == {r \in recipes : r.cache_key = k /\ now - r.created_at <= d * SecondsPerDay}

ResultRows == IF cache_lookup.result.t = "list"
              THEN {cache_lookup.result.v[i] : i \in 1..Len(cache_lookup.result.v)}
              ELSE {}

\* C2: get_cached_recipes returns exactly the stored recipes that carry the
\* fingerprint and are within max_age of the current time (one hour old: yes,
\* ten days old with max_age 7 days: no), each once; when there is none,
\* whether for lack of the fingerprint or for age, it returns the one miss
\* value None.
C2_LookupExact ==
    Looked =>
        LET k == cache_lookup.cache_key
            d == cache_lookup.max_age_days
        IN /\ ResultRows = Fresh(k, d)
           /\ Fresh(k, d) = {} <=> cache_lookup.result = PyNone
           /\ cache_lookup.result.t = "list"
                => Len(cache_lookup.result.v) = Cardinality(Fresh(k, d))
           /\ \A r \in recipes :
                r.cache_key = k /\ d = 7 =>
                    /\ now - r.created_at = 3600 => r \in ResultRows
                    /\ now - r.created_at = 10 * SecondsPerDay => r \notin ResultRows

\* a hit that returns the hour-old row and leaves out a ten-day-old row of
\* the same fingerprint
C2_Witness ==
    /\ Looked
    /\ cache_lookup.max_age_days = 7
    /\ \E r \in ResultRows : now - r.created_at = 3600
    /\ \E r \in recipes : /\ r.cache_key = cache_lookup.cache_key
                           /\ now - r.created_at = 10 * SecondsPerDay
                           /\ r \notin ResultRows

(***************************************************************************)
(* One caller of RateLimiter.wait_if_needed                                *)
(***************************************************************************)
LimiterInit ==
    /\ KeyIdle /\ OtherIdle /\ CacheIdle /\ ClientIdle /\ RestIdle
    /\ now = 0
    /\ requests = <<>>
    /\ max_requests \in 1..MaxLimit
    /\ dispatched = <<>>
    /\ last_wait = NoWait
    /\ ticks = 0

\* the whole of wait_if_needed, its sleep included
WaitIfNeeded ==
    /\ Len(dispatched) < MaxLimiterCalls
    /\ \E overslept \in {0, 1} :
         LET w == wait_if_needed(requests, max_requests, now, overslept)
         IN /\ requests' = w.requests
            /\ now' = w.now
            /\ dispatched' = Append(dispatched, w.now)
            /\ last_wait' = w
    /\ UNCHANGED <<max_requests, ticks>>
    /\ UNCHANGED <<keyVars, otherVars, cacheVars, clientVars, restVars>>

\* time passes between two calls
LimiterIdles ==
    /\ ticks < MaxLimiterTicks
    /\ ticks' = ticks + 1
    /\ now' = now + LimiterTick
    /\ UNCHANGED <<requests, max_requests, dispatched, last_wait>>
    /\ UNCHANGED <<keyVars, otherVars, cacheVars, clientVars, restVars>>

LimiterNext == WaitIfNeeded \/ LimiterIdles

SpecLimiter == LimiterInit /\ [][LimiterNext]_vars

(***************************************************************************)
(* Claims about the rate limiter                                           *)
(***************************************************************************)
\* the timestamps recorded in the 60 seconds that start at time s
RecordedFrom(s) == {i \in 1..Len(dispatched) : s <= dispatched[i] /\ dispatched[i] < s + 60}

\* C7: with one caller, no 60-second interval holds more than max_requests
\* recorded timestamps; a call that finds max_requests timestamps in the
\* window sleeps until the oldest one has left it and records only then, a
\* call under the limit records at once.
C7_WindowNeverExceeded ==
    /\ \A s \in 0..now : Cardinality(RecordedFrom(s)) <= max_requests
    /\ dispatched # <<>> =>
         /\ last_wait.now = dispatched[Len(dispatched)]
         /\ last_wait.found >= max_requests =>
               /\ last_wait.slept > 0
               /\ last_wait.now >= last_wait.entered + last_wait.slept
               /\ last_wait.now - dispatched[Len(dispatched) - last_wait.found] >= 60
         /\ last_wait.found < max_requests =>
               last_wait.slept = 0 /\ last_wait.now = last_wait.entered

\* a call found the window full, slept, and recorded after the wait
C7_Witness ==
    /\ Len(dispatched) > max_requests
    /\ last_wait.found = max_requests
    /\ last_wait.slept > 0
    /\ last_wait.now = last_wait.entered + last_wait.slept

(***************************************************************************)
(* GroqService.generate_completion, one attempt at a time                  *)
(***************************************************************************)
ClientResponses == {NoChoices, Response(PyNone), Response(NotJson)}

ClientInit ==
    /\ KeyIdle /\ OtherIdle /\ CacheIdle /\ LimiterIdle /\ ClientIdle /\ RestIdle
    /\ now = 0

\* a caller enters generate_completion
StartCompletion ==
    /\ gc.pc # "running"
    /\ completions < MaxCompletions
    /\ completions' = completions + 1
    /\ \E m \in 0..MaxRetries : gc' = GcStart(m)
    /\ UNCHANGED <<now, limiterVars, keyVars, otherVars, cacheVars, restVars>>

\* lines 105-128: rate limiting, then the provider answers
AttemptSucceeds ==
    /\ gc.pc = "running" /\ loop_continues(gc)
    /\ LET w == wait_if_needed(requests, max_requests, now, 0)
       IN /\ requests' = w.requests
          /\ dispatched' = Append(dispatched, w.now)
          /\ last_wait' = w
          /\ now' = w.now
    /\ \E response \in ClientResponses : gc' = on_success(gc, response)
    /\ UNCHANGED <<max_requests, ticks, completions, keyVars, otherVars, cacheVars, restVars>>

\* lines 105-140: rate limiting, then the provider raises; time.sleep
AttemptFails ==
    /\ gc.pc = "running" /\ loop_continues(gc)
    /\ LET w == wait_if_needed(requests, max_requests, now, 0)
       IN /\ requests' = w.requests
          /\ dispatched' = Append(dispatched, w.now)
          /\ last_wait' = w
          /\ now' = w.now + SleepSeconds(backoff(gc))
    /\ \E e \in ProviderErrors : gc' = on_failure(gc, e)
    /\ UNCHANGED <<max_requests, ticks, completions, keyVars, otherVars, cacheVars, restVars>>

\* lines 142-144: the loop is over
RetriesExhausted ==
    /\ gc.pc = "running" /\ ~loop_continues(gc)
    /\ gc' = on_exhausted(gc)
    /\ UNCHANGED <<now, limiterVars, completions, keyVars, otherVars, cacheVars, restVars>>

ClientNext == StartCompletion \/ AttemptSucceeds \/ AttemptFails \/ RetriesExhausted

SpecClient == ClientInit /\ [][ClientNext]_vars

(***************************************************************************)
(* Claims about the generation client                                      *)
(***************************************************************************)
\* C5: generate_completion returns the response of the first provider call
\* that succeeds and calls the provider no more after it: a call that
\* returned made k failing calls (k < max_retries) and then one succeeding
\* call, k+1 in all, and its value is that call's response.
C5_FirstSuccessReturned ==
    LET n == Len(gc.calls)
    IN /\ \A i \in 1..n :
            gc.calls[i].ok =>
               /\ i = n
               /\ gc.pc = "returned"
               /\ gc.result = [kind |-> "response", value |-> gc.calls[i].value]
       /\ gc.pc = "returned" =>
            /\ n >= 1 /\ n <= gc.max_retries
            /\ gc.calls[n].ok
            /\ Len(gc.backoffs) = n - 1

\* fail, fail, succeed with max_retries = 3: three calls and a return
C5_Witness ==
    /\ gc.pc = "returned"
    /\ gc.max_retries = 3
    /\ Len(gc.calls) = 3
    /\ ~gc.calls[1].ok /\ ~gc.calls[2].ok /\ gc.calls[3].ok

C18_BackoffSchedule ==
    [][(Len(gc'.calls) = Len(gc.calls) + 1 =>
           (LET slept == now' - last_wait'.now
            IN IF gc'.calls[Len(gc'.calls)].ok THEN slept = 0
               ELSE IF gc.attempt + 1 < gc.max_retries THEN slept = 2^gc.attempt
               ELSE slept = 0))
       /\ ((gc.pc = "running" /\ gc'.pc = "raised") => now' = now)]_vars

\* four failing attempts with max_retries = 4: waits of 1, 2 and 4 seconds,
\* none after the fourth, and the exception
C18_Witness ==
    /\ gc.pc = "raised"
    /\ gc.max_retries = 4
    /\ Len(gc.calls) = 4
    /\ gc.backoffs = <<1, 2, 4>>
    /\ now = 7

(***************************************************************************)
(* parse_recipe_response on one message content                            *)
(***************************************************************************)
\* a recipe entry as the prompt asks for it, without the optional fields
Draft(name, ingredients) ==
    PyDict(<<<<"name", name>>,
             <<"description", PyStr(<<>>)>>,
             <<"ingredients", PyList(ingredients)>>,
             <<"instructions", PyList(<<PyStr(<<109, 105, 120>>)>>)>>,
             <<"cooking_time_minutes", PyInt(30)>>,
             <<"difficulty", Easy>>,
             <<"serving_size", PyInt(2)>>>>)

\* an ingredient entry
IngredientEntry(name) == PyDict(<<<<"name", name>>, <<"quantity", PyStr(<<49>>)>>>>)

\* "soup", "stew"
Soup == PyStr(<<115, 111, 117, 112>>)

Stew == PyStr(<<115, 116, 101, 119>>)

GoodDraft(name) == Draft(name, <<IngredientEntry(PyStr(<<97>>))>>)

RECURSIVE Concat(_)
Concat(q) == IF q = <<>> THEN <<>> ELSE Head(q) \o Concat(Tail(q))

AllFieldNames == [k \in 1..Len(required_fields) |-> CodePoints(required_fields[k])]

\* entries of every kind the validation tells apart
ParseEntries ==
    {GoodDraft(Soup), GoodDraft(Stew)}
    \cup {PyDict(DelPair(GoodDraft(Soup).v, required_fields[k])) : k \in 1..Len(required_fields)}
    \cup {SetItem(GoodDraft(Soup), "ingredients", x) :
             x \in {PyNone, PyStr(<<97>>), PyDict(<<>>), PyList(<<>>),
                    PyList(<<PyStr(<<97>>)>>),
                    PyList(<<IngredientEntry(PyStr(<<97>>)), PyInt(1)>>),
                    PyList(<<PyDict(<<>>)>>),
                    PyList(<<IngredientEntry(PyNone)>>)}}
    \cup {SetItem(GoodDraft(Soup), "instructions", x) : x \in {PyNone, PyStr(<<109>>)}}
    \cup {PyNone, PyInt(1), PyStr(<<>>), PyList(<<>>),
          PyStr(Concat(AllFieldNames)),
          PyList([k \in 1..Len(required_fields) |-> PyStr(AllFieldNames[k])])}

ParseDocuments ==
    {PyNone, PyInt(1), PyList(<<>>), PyDict(<<>>)}
    \cup {PyDict(<<<<"recipes", x>>>>) : x \in {PyNone, PyStr(<<97>>), PyDict(<<>>)}}
    \cup {PyDict(<<<<"recipes", PyList(es)>>>>) : es \in SeqsOf(ParseEntries, 0, MaxEntries)}

ResponseTexts == {PyNone, NotJson} \cup {JsonText(v) : v \in ParseDocuments}

ParseInit ==
    /\ KeyIdle /\ OtherIdle /\ CacheIdle /\ LimiterIdle /\ ClientIdle /\ DbIdle /\ SearchIdle
    /\ now = 0
    /\ response_text \in ResponseTexts
    /\ parsed = NotParsed

ParseRecipeResponse ==
    /\ parsed = NotParsed
    /\ parsed' = parse_recipe_response(response_text)
    /\ UNCHANGED <<response_text, now>>
    /\ UNCHANGED <<keyVars, otherVars, cacheVars, limiterVars, clientVars, dbVars, searchVars>>

ParseNext == ParseRecipeResponse

SpecParse == ParseInit /\ [][ParseNext]_vars

(***************************************************************************)
(* Claims about the parser                                                 *)
(***************************************************************************)
\* the complaints the claim lists about one entry that is an object
EntryRefused(e) ==
    \/ \E k \in 1..Len(required_fields) : ~HasKey(e, required_fields[k])
    \/ GetItem(e, "ingredients").t # "list"
    \/ \E j \in 1..Len(GetItem(e, "ingredients").v) :
          LET ing == GetItem(e, "ingredients").v[j]
          IN IF ing.t # "dict" THEN TRUE ELSE ~HasKey(ing, "name")
    \/ GetItem(e, "instructions").t # "list"

\* the complaints the claim lists about a message content
TextRefused(text) ==
    IF text.t # "text" THEN FALSE
    ELSE IF text.doc = <<>> THEN TRUE
    ELSE LET data == text.doc[1]
         IN IF data.t # "dict" THEN TRUE
            ELSE IF ~HasKey(data, "recipes") THEN TRUE
            ELSE IF GetItem(data, "recipes").t # "list" THEN TRUE
            ELSE LET es == GetItem(data, "recipes").v
                 IN \/ es = <<>>
                    \/ \E i \in 1..Len(es) :
                          IF es[i].t # "dict" THEN FALSE ELSE EntryRefused(es[i])

\* C8: parse_recipe_response returns the whole 'recipes' list, entries and
\* order unchanged, or raises RecipeGenerationError; it raises for text that
\* is not JSON, a value that is not an object, 'recipes' missing, not a list
\* or empty, an entry without a required field, with 'ingredients' or
\* 'instructions' not a list, or with an ingredient that is not an object or
\* has no 'name', at whatever index; no other exception type escapes.
C8_ParseAllOrError ==
    parsed # NotParsed =>
       /\ IsRaised(parsed) => parsed.raised = "RecipeGenerationError"
       /\ IsReturned(parsed) =>
            /\ response_text.t = "text" /\ response_text.doc # <<>>
            /\ parsed.returned = GetItem(response_text.doc[1], "recipes")
       /\ TextRefused(response_text) => IsRaised(parsed)

\* a valid first entry and an invalid second one: the whole parse is refused
C8_Witness ==
    /\ IsRaised(parsed)
    /\ response_text.t = "text" /\ response_text.doc # <<>>
    /\ response_text.doc[1] =
          PyDict(<<<<"recipes",
                     PyList(<<GoodDraft(Soup),
                              SetItem(GoodDraft(Soup), "instructions", PyNone)>>)>>>>)

(***************************************************************************)
(* One call of generate_recipes on a fresh session                         *)
(***************************************************************************)
\* d with the optional field k
WithItem(d, k, v) == PyDict(Append(d.v, <<k, v>>))

\* drafts that pass the parser: two that store, one whose second ingredient
\* has a null name, one whose dietary_tags is null, one without a cooking
\* time, one whose ingredient "a!" is looked up as "a", one with a cooking
\* time of 0 minutes, one that names the tag "v" twice ("V ", "v"), one that
\* names the ingredient "b" twice
GenDrafts ==
    {GoodDraft(Soup),
     SetItem(GoodDraft(Soup), "cooking_time_minutes", PyInt(0)),
     WithItem(Draft(Stew, <<IngredientEntry(PyStr(<<32, 66>>))>>),
              "dietary_tags", PyList(<<PyStr(<<86, 32>>)>>)),
     Draft(Soup, <<IngredientEntry(PyStr(<<98>>)), IngredientEntry(PyNone)>>),
     WithItem(GoodDraft(Stew), "dietary_tags", PyNone),
     SetItem(GoodDraft(Soup), "cooking_time_minutes", PyNone),
     Draft(Stew, <<IngredientEntry(PyStr(<<97, 33>>))>>),
     WithItem(GoodDraft(Soup), "dietary_tags",
              PyList(<<PyStr(<<86, 32>>), PyStr(<<118>>)>>)),
     Draft(Stew, <<IngredientEntry(PyStr(<<98>>)), IngredientEntry(PyStr(<<98>>))>>)}

Batches(drafts, most) ==
    {JsonText(PyDict(<<<<"recipes", PyList(es)>>>>)) : es \in SeqsOf(drafts, 1, most)}

\* what the provider does on each of the calls: fails the first f of them
Answers(failures, responses) ==
    {[k \in 1..DefaultMaxRetries |->
         IF k <= f
         THEN [ok |-> FALSE, value |-> IF k = 2 THEN "API Error 2" ELSE "API Error 1"]
         ELSE [ok |-> TRUE, value |-> r]] :
       f \in failures, r \in responses}

\* no choice, a null content, text that is not JSON, a document whose only
\* entry has no list of instructions, and the batches of drafts
GenResponses ==
    {NoChoices, Response(PyNone), Response(NotJson),
     Response(JsonText(PyDict(<<<<"recipes",
         PyList(<<SetItem(GoodDraft(Soup), "instructions", PyNone)>>)>>>>)))}
    \cup {Response(text) : text \in Batches(GenDrafts, MaxDrafts)}

\* no ingredient, "a", " A"
GenIngredients == {<<>>, <<PyStr(<<97>>)>>, <<PyStr(<<32, 65>>)>>}

GenFilters ==
    {PyNone,
     PyDict(<<<<"cooking_time_range", PyList(<<PyInt(10)>>)>>>>),
     PyDict(<<<<"cooking_time_range", PyList(<<PyInt(10), PyInt(30)>>)>>>>)}

\* the ingredients table is empty or holds "a"
SeededTables ==
    {{}, {[table |-> "ingredients", id |-> 1, name |-> <<97>>, synonyms |-> {},
           recipe_id |-> 0, other_id |-> 0]}}

GenerateInit ==
    /\ KeyIdle /\ OtherIdle /\ LimiterIdle /\ ClientIdle /\ ParseIdle /\ SearchIdle
    /\ now = 0
    /\ recipes = {}
    /\ cache_lookup = [cache_key |-> SqlNull, max_age_days |-> 0, result |-> PyNone]
    /\ tables \in SeededTables
    /\ next_id = 2

\* a call of generate_recipes and everything it does
Generate(ingredients, filters, answers) ==
    \E g \in {generate_recipes(Session(recipes, tables, next_id, now),
                                Limiter(requests, max_requests, now, dispatched, last_wait),
                                ingredients, filters, answers)} :
       /\ recipes' = g.db.recipes
       /\ tables' = g.db.tables
       /\ next_id' = g.db.next_id
       /\ now' = g.lim.now
       /\ requests' = g.lim.requests
       /\ dispatched' = g.lim.dispatched
       /\ last_wait' = g.lim.last_wait
       /\ gc' = g.gc
       /\ completions' = IF g.gc.pc = "idle" THEN completions ELSE completions + 1
       /\ batch' = [ingredients |-> ingredients, filters |-> filters,
                    outcome |-> g.outcome, cache_key |-> g.cache_key,
                    recipes_data |-> g.recipes_data, log |-> g.log]
       /\ UNCHANGED <<max_requests, ticks, cache_lookup, keyVars, otherVars, parseVars>>

GenerateRecipes ==
    /\ batch = NoBatch
    /\ \E ingredients \in GenIngredients, filters \in GenFilters,
          answers \in Answers(0..DefaultMaxRetries, GenResponses) :
          Generate(ingredients, filters, answers)
    /\ UNCHANGED <<search, searches, days>>

GenerateNext == GenerateRecipes

SpecGenerate == GenerateInit /\ [][GenerateNext]_vars

(***************************************************************************)
(* Claims about persisting a batch                                         *)
(***************************************************************************)
\* the drafts of the latest batch whose store_recipe_in_db returned
Stored == {i \in 1..Len(batch.log) : IsReturned(batch.log[i].outcome)}

\* C9: persisting a draft is all or nothing: after a batch, a draft whose
\* store_recipe_in_db failed has no Recipe row and no RecipeIngredient,
\* RecipeDietaryTag, Ingredient or DietaryTag row of its own in the committed
\* tables, also when a later draft of the batch commits on the same session.
C9_DraftAllOrNothing ==
    batch # NoBatch =>
       \A i \in 1..Len(batch.log) :
          IsRaised(batch.log[i].outcome) =>
             /\ \A r \in recipes : r.id # batch.log[i].recipe_id
             /\ \A r \in tables :
                   /\ r \notin batch.log[i].made
                   /\ r.table \in {"recipe_ingredients", "recipe_dietary_tags"}
                        => r.recipe_id # batch.log[i].recipe_id

\* the ids of the drafts that stored, in draft order
RECURSIVE StoredIds(_)
StoredIds(log) ==
    IF log = <<>> THEN <<>>
    ELSE (IF IsReturned(Head(log).outcome) THEN <<Head(log).recipe_id>> ELSE <<>>)
         \o StoredIds(Tail(log))

\* C10: generate_recipes hands every parsed draft to store_recipe_in_db, in
\* order and whatever became of the drafts before it; it returns the Recipe
\* rows of exactly the drafts whose store succeeded, in draft order, each
\* committed under the batch's key, and raises RecipeGenerationError if and
\* only if no draft of the batch stored.
C10_PartialSalvage ==
    (batch # NoBatch /\ batch.recipes_data # <<>>) =>
       /\ Len(batch.log) = Len(batch.recipes_data)
       /\ \A i \in Stored :
             \E r \in recipes :
                /\ r.id = batch.log[i].recipe_id
                /\ r.name = GetItem(batch.recipes_data[i], "name")
                /\ r.cache_key = batch.cache_key
       /\ IsReturned(batch.outcome) => batch.outcome.returned = StoredIds(batch.log)
       /\ IsRaised(batch.outcome) => batch.outcome.raised = "RecipeGenerationError"
       /\ IsRaised(batch.outcome) <=> Stored = {}

\* the first draft failed, the second stored and is all that is returned
C10_Witness ==
    /\ batch # NoBatch
    /\ Len(batch.log) = 2
    /\ IsRaised(batch.log[1].outcome)
    /\ IsReturned(batch.log[2].outcome)
    /\ batch.outcome = Returned(<<batch.log[2].recipe_id>>)

\* the committed Ingredient rows
IngredientRows == {r \in tables : r.table = "ingredients"}

\* C11: after seeding and any batch of drafts persisted, no two Ingredient
\* rows have names that are equal after normalization: a draft ingredient
\* whose normalized name is the name (or a synonym) of a row reuses that row.
C11_NormalizedNamesUnique ==
    \A r1 \in IngredientRows, r2 \in IngredientRows :
       normalize_ingredient_name(r1.name) = normalize_ingredient_name(r2.name)
          => r1 = r2

\* the response has a content that parse_recipe_response refuses
Unparsable(response) ==
    IF response.choices = <<>> THEN FALSE
    ELSE IsRaised(parse_recipe_response(response.choices[1]))

\* C25: a provider call that succeeds with content that fails parsing or
\* validation is not retried: it is the last provider call of
\* generate_recipes (the only one when no call failed before it), nothing
\* is persisted and generate_recipes raises RecipeGenerationError.
C25_ParseFailureNotRetried ==
    batch # NoBatch =>
       \A k \in 1..Len(gc.calls) :
          (gc.calls[k].ok /\ Unparsable(gc.calls[k].value)) =>
             /\ Len(gc.calls) = k
             /\ recipes = {}
             /\ tables \in SeededTables
             /\ IsRaised(batch.outcome)
             /\ batch.outcome.raised = "RecipeGenerationError"

\* the first provider call returned a document that fails validation: one
\* call was made, and the limiter recorded one request
C25_Witness ==
    /\ batch # NoBatch
    /\ Len(gc.calls) = 1
    /\ gc.calls[1].ok
    /\ gc.calls[1].value.choices # <<>>
    /\ gc.calls[1].value.choices[1].t = "text"
    /\ gc.calls[1].value.choices[1].doc # <<>>
    /\ Unparsable(gc.calls[1].value)
    /\ Len(dispatched) = 1
    /\ batch.outcome = Raised("RecipeGenerationError", "instructions is not a list")

\* C27: an Ingredient created by store_recipe_in_db is stored under the name
\* that the lookup of a later draft searches for: when a draft has stored
\* and the next draft names its ingredients with the same text, the next
\* draft finds the rows of the first, creates no Ingredient row and stores
\* (the next draft is taken equal to the first in its other fields too, so
\* that nothing else can make it fail).
C27_SameTextFindsRow ==
    batch # NoBatch =>
       \A i \in 1..(Len(batch.log) - 1) :
          (/\ IsReturned(batch.log[i].outcome)
           /\ batch.recipes_data[i + 1] = batch.recipes_data[i]) =>
             IsReturned(batch.log[i + 1].outcome)

\* C30: every failure of generate_recipes is a RecipeGenerationError: no
\* ingredient, the provider's retries exhausted, an empty or malformed
\* response, malformed filters (a cooking_time_range that is not a pair)
\* and no draft stored all raise it, and nothing else is raised.
C30_OnlyGenerationError ==
    (batch # NoBatch /\ IsRaised(batch.outcome)) =>
        batch.outcome.raised = "RecipeGenerationError"

\* the i-th draft of the batch met a session that no earlier draft had
\* left with a failed flush or with rows of its own
OnCleanSession(i) == \A k \in 1..(i - 1) : IsReturned(batch.log[k].outcome)

\* the list under key of recipe_data names some text twice, as
\* lower().strip() reads it; entries are the names themselves or hold them
\* under "name"
NamesTwice(recipe_data, key) ==
    /\ HasKey(recipe_data, key)
    /\ GetItem(recipe_data, key).t = "list"
    /\ LET list == GetItem(recipe_data, key).v
           text(k) == IF list[k].t = "dict" THEN GetItem(list[k], "name") ELSE list[k]
       IN /\ \A k \in 1..Len(list) : text(k).t = "str"
          /\ \E k, l \in 1..Len(list) :
                k < l /\ Strip(StrLower(text(k).v)) = Strip(StrLower(text(l).v))

\* the association rows of a table that the store holds for a recipe
Associations(table, recipe_id) ==
    {r \in tables : r.table = table /\ r.recipe_id = recipe_id}

\* C28: a draft that names the same dietary tag more than once is persisted
\* with one association to that tag, and a draft that names the same
\* ingredient twice is persisted with one association for each of its lines.
C28_TagsFormASet ==
    batch # NoBatch =>
       \A i \in 1..Len(batch.log) :
          LET recipe_data == batch.recipes_data[i]
              stored == IsReturned(batch.log[i].outcome)
              tags == Associations("recipe_dietary_tags", batch.log[i].recipe_id)
              lines == Associations("recipe_ingredients", batch.log[i].recipe_id)
          IN OnCleanSession(i) =>
                /\ NamesTwice(recipe_data, "dietary_tags") =>
                      /\ stored
                      /\ \A r, o \in tags : r.other_id = o.other_id => r = o
                /\ NamesTwice(recipe_data, "ingredients") =>
                      /\ stored
                      /\ Cardinality(lines) = Len(GetItem(recipe_data, "ingredients").v)

\* the half of C28 that holds: both lines of an ingredient named twice
C28_BothLinesKept ==
    batch # NoBatch =>
       \A i \in 1..Len(batch.log) :
          LET recipe_data == batch.recipes_data[i]
              lines == Associations("recipe_ingredients", batch.log[i].recipe_id)
          IN (OnCleanSession(i) /\ NamesTwice(recipe_data, "ingredients")
                /\ ~NamesTwice(recipe_data, "dietary_tags")) =>
                /\ IsReturned(batch.log[i].outcome)
                /\ Cardinality(lines) = Len(GetItem(recipe_data, "ingredients").v)

\* "medium", "hard"
Medium == PyStr(<<109, 101, 100, 105, 117, 109>>)

Hard == PyStr(<<104, 97, 114, 100>>)

\* C21: every Recipe that the generation pipeline persists has a cooking
\* time > 0, a difficulty that is one of easy, medium, hard, and a serving
\* size > 0, whatever response parse_recipe_response accepted.
C21_PersistedRecipesValid ==
    \A r \in recipes :
       /\ r.cooking_time_minutes.t = "int" /\ r.cooking_time_minutes.v > 0
       /\ r.difficulty \in {Easy, Medium, Hard}
       /\ r.serving_size.t = "int" /\ r.serving_size.v > 0

(***************************************************************************)
(* Searches over time                                                      *)
(***************************************************************************)
\* "a", "b"
SearchIngredients == {<<PyStr(<<97>>)>>, <<PyStr(<<98>>)>>}

SearchFilters ==
    {PyNone, PyDict(<<<<"cooking_time_range", PyList(<<PyInt(10), PyInt(30)>>)>>>>)}

\* a batch of one good draft, and a batch whose first draft fails to store
SearchResponses ==
    {Response(JsonText(PyDict(<<<<"recipes", PyList(<<GoodDraft(Soup)>>)>>>>))),
     Response(JsonText(PyDict(<<<<"recipes",
         PyList(<<WithItem(GoodDraft(Stew), "dietary_tags", PyNone),
                  GoodDraft(Soup)>>)>>>>)))}

Init ==
    /\ KeyIdle /\ OtherIdle /\ CacheIdle /\ LimiterIdle /\ ClientIdle /\ RestIdle
    /\ now = 0

\* one request to POST /api/recipes/search
Search(ingredients, filters, page, page_size, answers) ==
    \E s \in {search_recipes(Session(recipes, tables, next_id, now),
                              Limiter(requests, max_requests, now, dispatched, last_wait),
                              ingredients, filters, answers)} :
    \E answer \in {search_page(s, page, page_size)} :
       /\ recipes' = s.generated.db.recipes
       /\ tables' = s.generated.db.tables
       /\ next_id' = s.generated.db.next_id
       /\ now' = s.generated.lim.now
       /\ requests' = s.generated.lim.requests
       /\ dispatched' = s.generated.lim.dispatched
       /\ last_wait' = s.generated.lim.last_wait
       /\ gc' = s.generated.gc
       /\ completions' = IF s.generated.gc.pc = "idle" THEN completions
                          ELSE completions + 1
       /\ batch' = IF s.hit THEN batch
                   ELSE [ingredients |-> ingredients, filters |-> filters,
                         outcome |-> s.generated.outcome,
                         cache_key |-> s.generated.cache_key,
                         recipes_data |-> s.generated.recipes_data,
                         log |-> s.generated.log]
       /\ search' = [ingredients |-> ingredients, filters |-> filters, at |-> now,
                     cache_key |-> s.cache_key, hit |-> s.hit,
                     provider_calls |-> Len(s.generated.gc.calls),
                     page |-> page, page_size |-> page_size,
                     retrieved |-> [i \in 1..Len(s.recipes) |-> s.recipes[i].id],
                     response |-> answer,
                     status |-> IF IsRaised(answer) THEN 500 ELSE 200,
                     earlier |-> search.earlier \cup
                        (IF ~s.hit /\ IsReturned(s.generated.outcome)
                         THEN {[ingredients |-> ingredients, filters |-> filters,
                                at |-> now]}
                         ELSE {})]

SearchRecipes ==
    /\ searches < MaxSearches
    /\ searches' = searches + 1
    /\ \E ingredients \in SearchIngredients, filters \in SearchFilters,
          answers \in Answers({0, 1, DefaultMaxRetries}, SearchResponses) :
          Search(ingredients, filters, 1, DefaultPageSize, answers)
    /\ UNCHANGED <<max_requests, ticks, days, cache_lookup, keyVars, otherVars, parseVars>>

\* half of max_age passes
TimePasses ==
    /\ days < MaxDays
    /\ days' = days + 1
    /\ now' = now + (DefaultMaxAgeDays * SecondsPerDay) \div 2
    /\ UNCHANGED <<batch, search, searches>>
    /\ UNCHANGED <<keyVars, otherVars, cacheVars, limiterVars, clientVars, parseVars, dbVars>>

Next == SearchRecipes \/ TimePasses

Spec == Init /\ [][Next]_vars

(***************************************************************************)
(* Claims about search                                                     *)
(***************************************************************************)
\* the fingerprint search_recipes derives for a request
DerivedKey(ingredients, filters) ==
    generate_cache_key(
        [i \in 1..Len(ingredients) |-> PyStr(normalize_ingredient_name(ingredients[i].v))],
        filters)

\* C1: search_recipes calls the provider only on a cache miss: when the
\* lookup of the derived fingerprint finds recipes nothing is generated; on a
\* miss generation runs once and every recipe it persists carries the
\* fingerprint that was looked up, so the same search repeated within
\* max_age of a search that generated is a hit and calls the provider not
\* at all.
C1_ProviderOnlyOnMiss ==
    [][searches' = searches + 1 =>
         LET key == DerivedKey(search'.ingredients, search'.filters)
             cached == get_cached_recipes(recipes, now, key, DefaultMaxAgeDays)
         IN /\ search'.cache_key = key
            /\ cached # PyNone =>
                  /\ search'.hit /\ search'.provider_calls = 0
                  /\ dispatched' = dispatched
                  /\ recipes' = recipes
            /\ cached = PyNone =>
                  /\ ~search'.hit
                  /\ completions' = completions + 1
                  /\ Len(dispatched') - Len(dispatched) = search'.provider_calls
                  /\ search'.provider_calls \in 1..DefaultMaxRetries
                  /\ \A r \in recipes' \ recipes : r.cache_key = key
            /\ \A e \in search.earlier :
                  (/\ e.ingredients = search'.ingredients
                   /\ e.filters = search'.filters
                   /\ now - e.at <= DefaultMaxAgeDays * SecondsPerDay)
                     => search'.hit /\ search'.provider_calls = 0]_vars

\* a search that generated, repeated seven days later: a hit, no provider call
C1_Witness ==
    /\ searches > 0
    /\ search.hit
    /\ search.provider_calls = 0
    /\ \E e \in search.earlier :
          /\ e.ingredients = search.ingredients
          /\ e.filters = search.filters
          /\ search.at = e.at + DefaultMaxAgeDays * SecondsPerDay

(***************************************************************************)
(* Calls of calculate_match_percentage                                     *)
(***************************************************************************)
\* "a", "B", "c!"
MatchNames == {<<97>>, <<66>>, <<99, 33>>}

MatchRecipes ==
    SeqsOf([name : MatchNames, is_optional : BOOLEAN], 0, MaxRecipeIngredients)

\* "a", " A!", "b", "c"
MatchUsers == SeqsOf({<<97>>, <<32, 65, 33>>, <<98>>, <<99>>}, 0, MaxUserIngredients)

MatchInit ==
    /\ KeyIdle /\ CacheIdle /\ now = 0 /\ LimiterIdle /\ ClientIdle /\ RestIdle
    /\ OtherIdle

CalculateMatchPercentage ==
    /\ match = NoMatch
    /\ \E recipe_ingredients \in MatchRecipes, user_ingredients \in MatchUsers :
          match' = [recipe_ingredients |-> recipe_ingredients,
                    user_ingredients |-> user_ingredients,
                    result |-> calculate_match_percentage(recipe_ingredients,
                                                          user_ingredients)]
    /\ UNCHANGED <<keyVars, cacheVars, now, limiterVars, clientVars, restVars>>
    /\ UNCHANGED <<normalizeVars, sweepVars, detailVars, ratingVars, concVars>>

MatchNext == CalculateMatchPercentage

SpecMatch == MatchInit /\ [][MatchNext]_vars

(***************************************************************************)
(* Claims about the match percentage                                       *)
(***************************************************************************)
\* the positions of the denominator ingredients of the latest call
Denominator ==
    LET all == 1..Len(match.recipe_ingredients)
        needed == {i \in all : ~match.recipe_ingredients[i].is_optional}
    IN IF needed = {} THEN all ELSE needed

\* those of them the user has
Matching ==
    {i \in Denominator :
        \E j \in 1..Len(match.user_ingredients) :
           normalize_ingredient_name(match.recipe_ingredients[i].name)
              = normalize_ingredient_name(match.user_ingredients[j])}

\* C12 as stated: the result is 0.0 for a recipe without ingredients and
\* otherwise exactly 100 * m / d.
C12_ExactQuotient ==
    match # NoMatch =>
       IF match.recipe_ingredients = <<>> THEN match.result = 0
       ELSE match.result * Cardinality(Denominator) = 1000 * Cardinality(Matching)

\* C12: calculate_match_percentage returns 0.0 for a recipe without
\* ingredients and otherwise 100 * m / d rounded to one decimal, d being the
\* number of non-optional ingredients (of all ingredients when none is
\* non-optional) and m the number of those whose normalized name is in the
\* normalized user set; the result is within [0, 100], is 100.0 when m = d
\* and, below 2000 denominator ingredients, only then.
C12_RoundedQuotient ==
    match # NoMatch =>
       IF match.recipe_ingredients = <<>> THEN match.result = 0
       ELSE LET d == Cardinality(Denominator)
                m == Cardinality(Matching)
                off == match.result * d - 1000 * m
            IN /\ -d <= 2 * off /\ 2 * off <= d
               /\ 0 <= match.result /\ match.result <= 1000
               /\ m = d => match.result = 1000
               /\ (match.result = 1000 /\ d < 2000) => m = d

\* one of three required ingredients is at hand, an optional one is not
\* counted: 33.3
C12_Witness ==
    /\ match # NoMatch
    /\ Cardinality(Denominator) = 3
    /\ Cardinality(Matching) = 1
    /\ match.result = 333

(***************************************************************************)
(* A search that generates, and the same search again on another page      *)
(***************************************************************************)
\* a draft with its ingredient names, cooking time and dietary tags
PageDraft(name, ingredient_names, cooking_time, dietary_tags) ==
    WithItem(SetItem(Draft(name, [i \in 1..Len(ingredient_names) |->
                                     IngredientEntry(PyStr(ingredient_names[i]))]),
                     "cooking_time_minutes", PyInt(cooking_time)),
             "dietary_tags",
             PyList([i \in 1..Len(dietary_tags) |-> PyStr(dietary_tags[i])]))

\* a, b / 10 min / v;  a / 30 min / "V ", w;  b / 45 min / no tag
PageDrafts ==
    {PageDraft(Soup, <<<<97>>, <<98>>>>, 10, <<<<118>>>>),
     PageDraft(Stew, <<<<97>>>>, 30, <<<<86, 32>>, <<119>>>>),
     PageDraft(Soup, <<<<98>>>>, 45, <<>>)}

\* no filter, two ranges, a range without lower bound, one and two tags,
\* a range with a tag
PageFilters ==
    LET range(lo, hi) == <<"cooking_time_range", PyList(<<lo, hi>>)>>
        prefs(q) == <<"dietary_preferences", PyList(q)>>
    IN {PyNone,
        PyDict(<<range(PyInt(10), PyInt(30))>>),
        PyDict(<<range(PyInt(20), PyInt(45))>>),
        PyDict(<<range(PyNone, PyInt(30))>>),
        PyDict(<<prefs(<<PyStr(<<86>>)>>)>>),
        PyDict(<<prefs(<<PyStr(<<118>>), PyStr(<<87>>)>>)>>),
        PyDict(<<range(PyInt(10), PyInt(30)), prefs(<<PyStr(<<118>>)>>)>>)}

PageResponses == {Response(text) : text \in Batches(PageDrafts, MaxPageDrafts)}

\* the first search of a store that is still empty
SearchFirst ==
    /\ searches = 0
    /\ searches' = 1
    /\ \E filters \in PageFilters, page \in 1..MaxPage, page_size \in 1..MaxPageSize,
          answers \in Answers({0}, PageResponses) :
          Search(<<PyStr(<<97>>)>>, filters, page, page_size, answers)
    /\ UNCHANGED <<max_requests, ticks, days, cache_lookup, keyVars, otherVars, parseVars>>

\* the same ingredients and filters requested again
SearchAgain ==
    /\ searches = 1
    /\ searches' = 2
    /\ \E page \in 1..MaxPage, page_size \in 1..MaxPageSize,
          answers \in Answers({0}, {Response(JsonText(PyDict(
                          <<<<"recipes", PyList(<<GoodDraft(Soup)>>)>>>>)))}) :
          Search(search.ingredients, search.filters, page, page_size, answers)
    /\ UNCHANGED <<max_requests, ticks, days, cache_lookup, keyVars, otherVars, parseVars>>

PageNext == SearchFirst \/ SearchAgain

SpecPage == Init /\ [][PageNext]_vars

(***************************************************************************)
(* Claims about the page search_recipes answers with                       *)
(***************************************************************************)
Answered == searches > 0 /\ IsReturned(search.response)

\* the stored recipe with an id
RecipeOf(id) == CHOOSE r \in recipes : r.id = id

\* the lower-cased names of the tags a stored recipe carries
TagsOf(id) ==
    {StrLower(t.name) : t \in {t \in tables :
        /\ t.table = "dietary_tags"
        /\ \E rt \in tables : /\ rt.table = "recipe_dietary_tags"
                               /\ rt.recipe_id = id /\ rt.other_id = t.id}}

\* the request of the latest search asks for a cooking time range
RangeAsked ==
    IF search.filters = PyNone THEN FALSE
    ELSE HasKey(search.filters, "cooking_time_range")

\* the request of the latest search asks for dietary tags
TagsAsked ==
    IF search.filters = PyNone THEN FALSE
    ELSE HasKey(search.filters, "dietary_preferences")

\* a stored recipe passes the filters of the latest search
Passes(id) ==
    /\ RangeAsked =>
          LET range == GetItem(search.filters, "cooking_time_range").v
          IN /\ range[1].v <= RecipeOf(id).cooking_time_minutes.v
             /\ RecipeOf(id).cooking_time_minutes.v <= range[2].v
    /\ TagsAsked =>
          LET asked == GetItem(search.filters, "dietary_preferences").v
          IN \A i \in 1..Len(asked) : StrLower(asked[i].v) \in TagsOf(id)

\* the retrieved recipes that pass, in retrieval order
Filtered == SelectSeq(search.retrieved, Passes)

\* C13: filtering precedes pagination: every recipe of the answer, cached or
\* fresh, has a cooking time within the requested range (bounds included)
\* and every requested tag (whatever the case); total counts the recipes
\* that pass the filters, total_pages is ceil(total / page_size) (0 for no
\* recipe) and the page holds the filtered recipes at the positions
\* (page-1)*page_size .. page*page_size-1.
C13_FilterThenPaginate ==
    Answered =>
       LET answer == search.response.returned
           first == (search.page - 1) * search.page_size + 1
           last == IF search.page * search.page_size < Len(Filtered)
                   THEN search.page * search.page_size ELSE Len(Filtered)
       IN /\ \A i \in 1..Len(answer.recipes) : Passes(answer.recipes[i].id)
          /\ answer.total = Len(Filtered)
          /\ IF answer.total = 0 THEN answer.total_pages = 0
             ELSE /\ answer.total_pages * search.page_size >= answer.total
                  /\ (answer.total_pages - 1) * search.page_size < answer.total
          /\ {answer.recipes[i].id : i \in 1..Len(answer.recipes)}
                = {Filtered[k] : k \in first..last}
          /\ Len(answer.recipes) = Cardinality(first..last)

\* a cached batch of three, one of them filtered out by the range and the
\* tag, answered page 2 of 2 with the recipe that took exactly the upper bound
C13_Witness ==
    /\ Answered
    /\ search.hit
    /\ RangeAsked /\ TagsAsked
    /\ Len(search.retrieved) = 3
    /\ search.page = 2 /\ search.page_size = 1
    /\ search.response.returned.total = 2
    /\ search.response.returned.total_pages = 2
    /\ Len(search.response.returned.recipes) = 1
    /\ search.response.returned.recipes[1].cooking_time_minutes = 30

\* where a recipe came in the retrieval order
Position(id) == CHOOSE k \in 1..Len(search.retrieved) : search.retrieved[k] = id

\* C14: the recipe list of the answer is in descending order of match
\* percentage, and recipes of equal match percentage are in the order in
\* which they were retrieved.
C14_SortedByMatch ==
    Answered =>
       LET page == search.response.returned.recipes
       IN \A i \in 1..Len(page), j \in 1..Len(page) :
             i < j =>
                /\ page[i].match_percentage >= page[j].match_percentage
                /\ page[i].match_percentage = page[j].match_percentage
                      => Position(page[i].id) < Position(page[j].id)

\* retrieved with 0 %, 50 %, 50 %: the answer has the two of 50 % first, in
\* their retrieval order
C14_Witness ==
    /\ Answered
    /\ Len(search.response.returned.recipes) = 3
    /\ search.response.returned.recipes[1].match_percentage = 500
    /\ search.response.returned.recipes[2].match_percentage = 500
    /\ search.response.returned.recipes[3].match_percentage = 0
    /\ Position(search.response.returned.recipes[3].id) = 1
    /\ Position(search.response.returned.recipes[1].id) = 2
    /\ Position(search.response.returned.recipes[2].id) = 3

\* C29: the order by match percentage is global across the pages of one
\* search: when the same search is answered for page p and then for page
\* p + 1 from the same retrieved recipes, no recipe of page p + 1 has a
\* higher match percentage than a recipe of page p.
C29_OrderAcrossPages ==
    [][(/\ Answered /\ Answered'
        /\ search'.ingredients = search.ingredients
        /\ search'.filters = search.filters
        /\ search'.retrieved = search.retrieved
        /\ search'.page_size = search.page_size
        /\ search'.page = search.page + 1) =>
          \A i \in 1..Len(search.response.returned.recipes),
             j \in 1..Len(search'.response.returned.recipes) :
               search.response.returned.recipes[i].match_percentage
                  >= search'.response.returned.recipes[j].match_percentage]_vars

(***************************************************************************)
(* normalize_ingredient_name on a name and on its own result               *)
(***************************************************************************)
\* a, A, 1, space, hyphen, !
NameChars == {97, 65, 49, 32, 45, 33}

Names == SeqsOf(NameChars, 0, MaxNameLen)

NormalizeInit ==
    /\ KeyIdle /\ CacheIdle /\ now = 0 /\ LimiterIdle /\ ClientIdle /\ RestIdle
    /\ OtherIdle

NormalizeIngredientName ==
    /\ normalized = NotNormalized
    /\ \E name \in Names :
          normalized' =
              [name |-> name,
               once |-> normalize_ingredient_name(name),
               twice |-> normalize_ingredient_name(normalize_ingredient_name(name))]
    /\ UNCHANGED <<keyVars, cacheVars, now, limiterVars, clientVars, restVars>>
    /\ UNCHANGED <<matchVars, sweepVars, detailVars, ratingVars, concVars>>

NormalizeNext == NormalizeIngredientName

SpecNormalize == NormalizeInit /\ [][NormalizeNext]_vars

\* C15: normalize_ingredient_name returns for every string of letters,
\* digits, spaces, hyphens and special characters, and is idempotent:
\* normalize(normalize(x)) = normalize(x).
C15_Idempotent ==
    normalized # NotNormalized => normalized.twice = normalized.once

(***************************************************************************)
(* Cache maintenance on a store of recipes with their associations         *)
(***************************************************************************)
\* an ingredient, a tag, and for every recipe a RecipeIngredient and a
\* RecipeDietaryTag row
AssociationsOf(rows) ==
    LET row(table, id, name, recipe_id, other_id) ==
            [table |-> table, id |-> id, name |-> name, synonyms |-> {},
             recipe_id |-> recipe_id, other_id |-> other_id]
    IN {row("ingredients", 50, <<97>>, 0, 0), row("dietary_tags", 51, <<118>>, 0, 0)}
       \cup {row("recipe_ingredients", 100 + r.id, <<>>, r.id, 50) : r \in rows}
       \cup {row("recipe_dietary_tags", 0, <<>>, r.id, 51) : r \in rows}

SweepInit ==
    /\ KeyIdle /\ LimiterIdle /\ ClientIdle /\ ParseIdle /\ SearchIdle
    /\ OtherIdle
    /\ recipes \in CacheStores
    /\ tables = AssociationsOf(recipes)
    /\ next_id = 1
    /\ now = CacheEpoch
    /\ cache_lookup = [cache_key |-> SqlNull, max_age_days |-> 0, result |-> PyNone]

\* what a maintenance call leaves behind
Swept(op, cache_key, max_age_days, left) ==
    /\ recipes' = left.recipes
    /\ tables' = left.tables
    /\ cache_op' = [op |-> op, cache_key |-> cache_key, max_age_days |-> max_age_days,
                    count |-> left.count, recipes |-> recipes, tables |-> tables]

InvalidateCache ==
    /\ \E k \in CacheKeys :
          Swept("invalidate", k, 0, invalidate_cache(recipes, tables, k))
    /\ UNCHANGED <<now, cache_lookup, next_id>>
    /\ UNCHANGED <<keyVars, limiterVars, clientVars, parseVars, searchVars>>
    /\ UNCHANGED <<matchVars, normalizeVars, detailVars, ratingVars, concVars>>

CleanupExpiredCache ==
    /\ \E d \in {DefaultMaxAgeDays, 1} :
          Swept("cleanup", SqlNull, d, cleanup_expired_cache(recipes, tables, now, d))
    /\ UNCHANGED <<now, cache_lookup, next_id>>
    /\ UNCHANGED <<keyVars, limiterVars, clientVars, parseVars, searchVars>>
    /\ UNCHANGED <<matchVars, normalizeVars, detailVars, ratingVars, concVars>>

SweepNext == InvalidateCache \/ CleanupExpiredCache \/ GetCachedRecipes

SpecSweep == SweepInit /\ [][SweepNext]_vars

(***************************************************************************)
(* Claims about cache maintenance                                          *)
(***************************************************************************)
\* the association rows of a set of recipes
LinksOf(rows, other_rows) ==
    {a \in other_rows : /\ a.table \in {"recipe_ingredients", "recipe_dietary_tags"}
                        /\ \E r \in rows : r.id = a.recipe_id}

\* the recipes a lookup of fingerprint k with max age d returns from rows
Returns(rows, k, d) ==
    LET result == get_cached_recipes(rows, now, k, d)
    IN IF result = PyNone THEN {} ELSE {result.v[i] : i \in 1..Len(result.v)}

\* C16: invalidate_cache(fingerprint) deletes every recipe stored under the
\* fingerprint, expired or not, with its ingredient and tag associations,
\* returns how many recipes it deleted and leaves every recipe with another
\* or a null fingerprint, and its associations, as they were; a lookup of
\* the fingerprint right afterwards finds nothing.
C16_InvalidateExact ==
    cache_op.op = "invalidate" =>
       LET under == {r \in cache_op.recipes : r.cache_key = cache_op.cache_key}
       IN /\ recipes = cache_op.recipes \ under
          /\ cache_op.count = Cardinality(under)
          /\ tables = cache_op.tables \ LinksOf(under, cache_op.tables)
          /\ LinksOf(recipes, tables) = LinksOf(recipes, cache_op.tables)
          /\ \A d \in {DefaultMaxAgeDays, 1} : Returns(recipes, cache_op.cache_key, d) = {}

\* a fresh and an expired recipe under one fingerprint are both deleted, and
\* the lookup that follows misses
C16_Witness ==
    /\ cache_op.op = "invalidate"
    /\ cache_op.count = 2
    /\ \E r \in cache_op.recipes : now - r.created_at = 3600
    /\ \E r \in cache_op.recipes : now - r.created_at > DefaultMaxAgeDays * SecondsPerDay
    /\ recipes = {}
    /\ cache_lookup.cache_key = cache_op.cache_key
    /\ cache_lookup.max_age_days = DefaultMaxAgeDays
    /\ cache_lookup.result = PyNone

\* C17: cleanup_expired_cache(max_age) deletes exactly the recipes with a
\* fingerprint that are older than max_age and returns their count; it
\* deletes no recipe without fingerprint and none that get_cached_recipes
\* with the same time and max_age would still return, and every
\* fingerprinted recipe it leaves is one that lookup returns.
C17_CleanupExact ==
    cache_op.op = "cleanup" =>
       LET old == {r \in cache_op.recipes :
                     /\ r.cache_key # SqlNull
                     /\ now - r.created_at > cache_op.max_age_days * SecondsPerDay}
           gone == cache_op.recipes \ recipes
       IN /\ recipes \subseteq cache_op.recipes
          /\ gone = old
          /\ cache_op.count = Cardinality(old)
          /\ \A r \in gone :
                /\ r.cache_key # SqlNull
                /\ r \notin Returns(cache_op.recipes, r.cache_key, cache_op.max_age_days)
          /\ \A r \in recipes :
                r.cache_key # SqlNull
                   => r \in Returns(recipes, r.cache_key, cache_op.max_age_days)

\* of two recipes, the one exactly seven days old stays and the one a second
\* older is deleted
C17_Witness ==
    /\ cache_op.op = "cleanup"
    /\ cache_op.max_age_days = DefaultMaxAgeDays
    /\ cache_op.count = 1
    /\ \E r \in recipes :
          /\ r.cache_key # SqlNull
          /\ now - r.created_at = DefaultMaxAgeDays * SecondsPerDay
    /\ \E r \in cache_op.recipes \ recipes :
          now - r.created_at = DefaultMaxAgeDays * SecondsPerDay + 1

(***************************************************************************)
(* Concurrent requests to get_recipe_detail, each with its own session     *)
(***************************************************************************)
\* two recipes and an id that no recipe has
DetailRecipeIds == {1, 2, 9}

DetailStore ==
    {RecipeRow(i, PyStr(<<114>>), PyInt(30), Easy, PyInt(2), SqlNull, 0) : i \in {1, 2}}

DetailInit ==
    /\ KeyIdle /\ LimiterIdle /\ ClientIdle /\ RestIdle /\ OtherIdle
    /\ now = 0
    /\ recipes = DetailStore
    /\ cache_lookup = [cache_key |-> SqlNull, max_age_days |-> 0, result |-> PyNone]

\* lines 365-371: the query, and HTTP 404 when it finds nothing
DetailQuery(p) ==
    /\ detail[p].pc = "idle"
    /\ \E recipe_id \in DetailRecipeIds :
          detail' = [detail EXCEPT ![p] =
              IF recipe_by_id(recipes, recipe_id) = {}
              THEN [pc |-> "not_found", recipe_id |-> recipe_id, seen |-> 0]
              ELSE [pc |-> "loaded", recipe_id |-> recipe_id,
                    seen |-> (CHOOSE r \in recipe_by_id(recipes, recipe_id) : TRUE).view_count]]
    /\ UNCHANGED <<keyVars, cacheVars, now, limiterVars, clientVars, restVars>>
    /\ UNCHANGED <<matchVars, normalizeVars, sweepVars, ratingVars, concVars>>

\* lines 374-376: the increment of the loaded object and the commit
DetailCommit(p) ==
    /\ detail[p].pc = "loaded"
    /\ recipes' = increment_view_count(recipes, detail[p].recipe_id, detail[p].seen)
    /\ detail' = [detail EXCEPT ![p].pc = "done"]
    /\ UNCHANGED <<keyVars, cache_lookup, now, limiterVars, clientVars, restVars>>
    /\ UNCHANGED <<matchVars, normalizeVars, sweepVars, ratingVars, concVars>>

DetailNext == \E p \in 1..MaxDetailRequests : DetailQuery(p) \/ DetailCommit(p)

SpecDetail == DetailInit /\ [][DetailNext]_vars

\* the completed fetches of a recipe
Fetched(recipe_id) ==
    {p \in 1..MaxDetailRequests :
        detail[p].pc = "done" /\ detail[p].recipe_id = recipe_id}

\* C19: every completed get_recipe_detail adds exactly 1 to the stored
\* view_count of its recipe, also when the requests interleave: after N
\* completed fetches of a recipe its view_count is the initial value plus N;
\* a fetch of an unknown id changes no counter.
C19_ViewCountExact ==
    \A r \in recipes : r.view_count = Cardinality(Fetched(r.id))

(***************************************************************************)
(* Calls of create_or_update_rating, one after the other                   *)
(***************************************************************************)
RatingUsers == {1, 2}

RatingRecipes == {1, 2}

\* below the range, 3, 5, above the range
RatingValues == {0, 3, 5, 6}

RatingInit ==
    /\ KeyIdle /\ LimiterIdle /\ ClientIdle /\ RestIdle /\ OtherIdle
    /\ now = 0
    /\ recipes = DetailStore
    /\ cache_lookup = [cache_key |-> SqlNull, max_age_days |-> 0, result |-> PyNone]

CreateOrUpdateRating ==
    /\ \E user_id \in RatingUsers, recipe_id \in RatingRecipes,
          rating_value \in RatingValues :
          \E done \in {create_or_update_rating(ratings, user_id, recipe_id,
                                                 rating_value)} :
             /\ ratings' = done.ratings
             /\ rating_call' = [user_id |-> user_id, recipe_id |-> recipe_id,
                                rating_value |-> rating_value,
                                outcome |-> done.outcome, replaced |-> done.replaced]
    /\ UNCHANGED <<keyVars, cacheVars, now, limiterVars, clientVars, restVars>>
    /\ UNCHANGED <<matchVars, normalizeVars, sweepVars, detailVars, concVars>>

RatingNext == CreateOrUpdateRating

SpecRating == RatingInit /\ [][RatingNext]_vars

\* the ratings a user has given a recipe
RatingsOf(rows, user_id, recipe_id) ==
    {r \in rows : r.user_id = user_id /\ r.recipe_id = recipe_id}

\* C20: whatever calls of create_or_update_rating came before, after a call
\* with a value in 1..5 there is exactly one rating row of that user for
\* that recipe and it carries the value of the call, while the rows of other
\* users and other recipes are as they were; a call with a value outside
\* 1..5 raises ValueError and leaves every row as it was.
C20_OneRatingPerPair ==
    [][LET call == rating_call'
       IN IF call.rating_value \in 1..5
          THEN /\ IsReturned(call.outcome)
               /\ \E r \in ratings' :
                     /\ RatingsOf(ratings', call.user_id, call.recipe_id) = {r}
                     /\ r.rating = call.rating_value
                     /\ call.outcome.returned = r
               /\ \A u \in RatingUsers, c \in RatingRecipes :
                     /\ Cardinality(RatingsOf(ratings', u, c)) <= 1
                     /\ <<u, c>> # <<call.user_id, call.recipe_id>>
                          => RatingsOf(ratings', u, c) = RatingsOf(ratings, u, c)
               /\ get_recipe_ratings(ratings', call.recipe_id).total_ratings
                     = Cardinality({u \in RatingUsers :
                                      RatingsOf(ratings', u, call.recipe_id) # {}})
          ELSE /\ IsRaised(call.outcome)
               /\ call.outcome.raised = "ValueError"
               /\ ratings' = ratings]_vars

\* rating 3 replaced by rating 5: one row with value 5, average 5.0, count 1
C20_Witness ==
    /\ rating_call # NoRating
    /\ rating_call.rating_value = 5
    /\ rating_call.replaced = 3
    /\ Cardinality(ratings) = 1
    /\ \A r \in ratings : r.rating = 5
    /\ get_recipe_ratings(ratings, rating_call.recipe_id)
          = [average_rating |-> <<[num |-> 5, den |-> 1]>>, total_ratings |-> 1]

(***************************************************************************)
(* Searches served at the same time                                        *)
(*                                                                         *)
(* Each request has its own session on the one database and shares the     *)
(* GroqService of the process.  A request looks the fingerprint up (line   *)
(* 228) and then, in a second step, works on what it found (lines 230-301);*)
(* other requests run between the two.                                     *)
(***************************************************************************)
\* "a", " A", "b"
RaceIngredients == {<<PyStr(<<97>>)>>, <<PyStr(<<32, 65>>)>>, <<PyStr(<<98>>)>>}

\* a batch of one draft and a batch of two
RaceResponses ==
    {Response(JsonText(PyDict(<<<<"recipes", PyList(<<GoodDraft(Soup)>>)>>>>))),
     Response(JsonText(PyDict(<<<<"recipes",
         PyList(<<GoodDraft(Stew),
                  Draft(Soup, <<IngredientEntry(PyStr(<<98>>))>>)>>)>>>>)))}

RaceInit ==
    /\ KeyIdle /\ OtherIdle /\ CacheIdle /\ LimiterIdle /\ ClientIdle /\ RestIdle
    /\ now = 0

\* lines 212-228 of request p
RaceLookup(p) ==
    /\ race[p].pc = "idle"
    /\ \E ingredients \in RaceIngredients :
          race' = [race EXCEPT ![p] =
                      [pc |-> "looked", ingredients |-> ingredients,
                       looked |-> lookup_recipes(Session(recipes, tables, next_id, now),
                                                 ingredients, PyNone)]]
    /\ UNCHANGED <<keyVars, cacheVars, now, limiterVars, clientVars, restVars>>
    /\ UNCHANGED <<matchVars, normalizeVars, sweepVars, detailVars, ratingVars>>
    /\ UNCHANGED <<callers, overlapped, persists>>

\* lines 230-301 of request p
RaceAnswer(p) ==
    /\ race[p].pc = "looked"
    /\ \E answers \in Answers({0, 1}, RaceResponses) :
       \E s \in {recipes_for(Session(recipes, tables, next_id, now),
                             Limiter(requests, max_requests, now, dispatched, last_wait),
                             race[p].looked, answers)} :
          /\ recipes' = s.generated.db.recipes
          /\ tables' = s.generated.db.tables
          /\ next_id' = s.generated.db.next_id
          /\ now' = s.generated.lim.now
          /\ requests' = s.generated.lim.requests
          /\ dispatched' = s.generated.lim.dispatched
          /\ last_wait' = s.generated.lim.last_wait
          /\ gc' = s.generated.gc
          /\ completions' = IF s.hit THEN completions ELSE completions + 1
          /\ race' = [race EXCEPT ![p] =
                         [pc |-> "done", ingredients |-> race[p].ingredients,
                          looked |-> race[p].looked, hit |-> s.hit,
                          outcome |-> s.generated.outcome,
                          retrieved |-> [i \in 1..Len(s.recipes) |-> s.recipes[i].id],
                          response |-> search_page(s, 1, DefaultPageSize)]]
    /\ UNCHANGED <<max_requests, ticks, cache_lookup, keyVars, parseVars, searchVars>>
    /\ UNCHANGED <<matchVars, normalizeVars, sweepVars, detailVars, ratingVars>>
    /\ UNCHANGED <<callers, overlapped, persists>>

RaceNext == \E p \in 1..MaxRaceRequests : RaceLookup(p) \/ RaceAnswer(p)

SpecRace == RaceInit /\ [][RaceNext]_vars

(***************************************************************************)
(* Claims about searches served at the same time                           *)
(***************************************************************************)
\* request p missed the cache and generate_recipes returned a batch to it
Generates(p) ==
    IF race[p].pc # "done" THEN FALSE
    ELSE ~race[p].hit /\ IsReturned(race[p].outcome)

\* the ids of the rows a lookup of the fingerprint returns now
LookedUp(cache_key) ==
    LET cached == get_cached_recipes(recipes, now, cache_key, DefaultMaxAgeDays)
    IN IF cached.t = "None" THEN {}
       ELSE {cached.v[i].id : i \in 1..Len(cached.v)}

\* C22: two searches with the same fingerprint that both missed the cache
\* have both generated and persisted a batch: the store holds every recipe
\* of both batches under the fingerprint, no recipe in both, and a lookup of
\* the fingerprint returns all of them.
C22_BothBatchesKept ==
    \A p \in 1..MaxRaceRequests, q \in 1..MaxRaceRequests :
       (p # q /\ Generates(p) /\ Generates(q)
          /\ race[p].looked.cache_key = race[q].looked.cache_key) =>
          LET mine == {race[p].retrieved[i] : i \in 1..Len(race[p].retrieved)}
              theirs == {race[q].retrieved[i] : i \in 1..Len(race[q].retrieved)}
          IN /\ mine \cap theirs = {}
             /\ \A id \in mine \cup theirs :
                   \E r \in recipes :
                      r.id = id /\ r.cache_key = race[p].looked.cache_key
             /\ mine \cup theirs \subseteq LookedUp(race[p].looked.cache_key)

\* "a" and " A" were looked up before either was answered: both missed, one
\* persisted a batch of one and the other a batch of two, all three cached
C22_Witness ==
    /\ Generates(1) /\ Generates(2)
    /\ race[1].ingredients # race[2].ingredients
    /\ race[1].looked.cache_key = race[2].looked.cache_key
    /\ Len(race[1].retrieved) = 1 /\ Len(race[2].retrieved) = 2
    /\ Cardinality(LookedUp(race[1].looked.cache_key)) = 3

(***************************************************************************)
(* Callers of RateLimiter.wait_if_needed that run at the same time         *)
(*                                                                         *)
(* The limiter has no lock.  A caller takes the steps of lines 30-49 one   *)
(* at a time and other callers run between them: the list comprehension    *)
(* reads self.requests and builds a list, the assignment stores it, the    *)
(* test of line 37 reads self.requests again, the sleep lets time pass,    *)
(* the append of line 49 records.                                          *)
(***************************************************************************)
Inside(c) == callers[c].pc # "idle"

\* line 30: now = time.time()
EnterWait(c) ==
    /\ ~Inside(c)
    /\ Len(dispatched) + Cardinality({o \in 1..MaxCallers : Inside(o)}) < MaxWindowCalls
    /\ callers' = [callers EXCEPT ![c] = [NoCaller EXCEPT !.pc = "read", !.now = now]]
    /\ overlapped' = (overlapped \/ \E o \in 1..MaxCallers : Inside(o))
    /\ UNCHANGED <<now, limiterVars, race, persists>>
    /\ UNCHANGED <<keyVars, cacheVars, clientVars, restVars>>
    /\ UNCHANGED <<matchVars, normalizeVars, sweepVars, detailVars, ratingVars>>

\* lines 33-34 and 45-46, the right-hand side: the list comprehension
ReadWindow(c) ==
    /\ callers[c].pc = "read"
    /\ callers' = [callers EXCEPT ![c].pc = "store",
                                  ![c].kept = InWindow(requests, callers[c].now)]
    /\ UNCHANGED <<now, limiterVars, race, overlapped, persists>>
    /\ UNCHANGED <<keyVars, cacheVars, clientVars, restVars>>
    /\ UNCHANGED <<matchVars, normalizeVars, sweepVars, detailVars, ratingVars>>

\* lines 33 and 45, the assignment to self.requests
StoreWindow(c) ==
    /\ callers[c].pc = "store"
    /\ requests' = callers[c].kept
    /\ callers' = [callers EXCEPT ![c].pc = IF callers[c].slept THEN "record" ELSE "check"]
    /\ UNCHANGED <<now, max_requests, dispatched, last_wait, ticks, race, overlapped,
                   persists>>
    /\ UNCHANGED <<keyVars, cacheVars, clientVars, restVars>>
    /\ UNCHANGED <<matchVars, normalizeVars, sweepVars, detailVars, ratingVars>>

\* lines 37-42: the test, and the start of time.sleep(wait_time)
CheckLimit(c) ==
    /\ callers[c].pc = "check"
    /\ callers' =
          IF window_full(requests, max_requests)
          THEN LET wait_time ==
                       window_seconds - (callers[c].now - oldest_request(requests))
               IN IF wait_time > 0
                  THEN [callers EXCEPT ![c].pc = "sleep", ![c].wake_at = now + wait_time]
                  ELSE [callers EXCEPT ![c].pc = "record"]
          ELSE [callers EXCEPT ![c].pc = "record"]
    /\ UNCHANGED <<now, limiterVars, race, overlapped, persists>>
    /\ UNCHANGED <<keyVars, cacheVars, clientVars, restVars>>
    /\ UNCHANGED <<matchVars, normalizeVars, sweepVars, detailVars, ratingVars>>

\* lines 42-44: time.sleep returns, now = time.time()
WakeUp(c) ==
    /\ callers[c].pc = "sleep"
    /\ now' = IF now < callers[c].wake_at THEN callers[c].wake_at ELSE now
    /\ callers' = [callers EXCEPT ![c].pc = "read", ![c].now = now', ![c].slept = TRUE]
    /\ UNCHANGED <<limiterVars, race, overlapped, persists>>
    /\ UNCHANGED <<keyVars, cacheVars, clientVars, restVars>>
    /\ UNCHANGED <<matchVars, normalizeVars, sweepVars, detailVars, ratingVars>>

\* line 49: self.requests.append(now); the caller goes on to the provider
RecordRequest(c) ==
    /\ callers[c].pc = "record"
    /\ requests' = Append(requests, callers[c].now)
    /\ dispatched' = Append(dispatched, callers[c].now)
    /\ callers' = [callers EXCEPT ![c] = NoCaller]
    /\ UNCHANGED <<now, max_requests, last_wait, ticks, race, overlapped, persists>>
    /\ UNCHANGED <<keyVars, cacheVars, clientVars, restVars>>
    /\ UNCHANGED <<matchVars, normalizeVars, sweepVars, detailVars, ratingVars>>

\* time passes, whatever the callers are at
WindowClock ==
    /\ ticks < MaxWindowTicks
    /\ ticks' = ticks + 1
    /\ now' = now + WindowTick
    /\ UNCHANGED <<requests, max_requests, dispatched, last_wait, concVars>>
    /\ UNCHANGED <<keyVars, cacheVars, clientVars, restVars>>
    /\ UNCHANGED <<matchVars, normalizeVars, sweepVars, detailVars, ratingVars>>

WindowNext ==
    \/ \E c \in 1..MaxCallers :
          \/ EnterWait(c) \/ ReadWindow(c) \/ StoreWindow(c)
          \/ CheckLimit(c) \/ WakeUp(c) \/ RecordRequest(c)
    \/ WindowClock

SpecWindow == LimiterInit /\ [][WindowNext]_vars

(***************************************************************************)
(* Claims about callers that run at the same time                          *)
(***************************************************************************)
\* some 60 seconds hold more recorded timestamps than max_requests
WindowExceeded == \E s \in 0..now : Cardinality(RecordedFrom(s)) > max_requests

\* no caller is inside, and a timestamp that was recorded and is still
\* inside the window is not in self.requests
TimestampLost ==
    /\ \A c \in 1..MaxCallers : ~Inside(c)
    /\ \E i \in 1..Len(dispatched) :
          /\ now - dispatched[i] < window_seconds
          /\ \A j \in 1..Len(requests) : requests[j] # dispatched[i]

\* C23: the window of the limiter is unsynchronized and the limiter only
\* advisory under concurrency: callers that interleave inside
\* wait_if_needed can dispatch more than max_requests calls within one
\* 60-second window or lose a recorded timestamp from the window, and
\* nothing else can: while no caller has entered with another one inside,
\* the window is never exceeded and no timestamp is lost.
C23_ExactUnlessOverlapped ==
    (WindowExceeded \/ TimestampLost) => overlapped

\* max_requests is 1 and two calls were dispatched at the same second
C23_Witness ==
    /\ overlapped
    /\ max_requests = 1
    /\ Len(dispatched) = 2
    /\ dispatched[1] = dispatched[2]
    /\ WindowExceeded

\* both calls have returned and self.requests holds one of the two
\* timestamps of the window
C23_WitnessLost ==
    /\ overlapped
    /\ TimestampLost
    /\ Len(dispatched) = 2 /\ Len(requests) = 1

(***************************************************************************)
(* Calls of store_recipe_in_db that run at the same time                   *)
(*                                                                         *)
(* Each call has its own session, that is its own transaction on the one   *)
(* database: its queries see the committed rows and its own, its INSERTs   *)
(* stay its own until it commits.  The unique index on the name of an      *)
(* ingredient or a tag makes an INSERT wait while another transaction      *)
(* holds an uncommitted row of that name, and fail once a row of that name *)
(* is committed.  The id sequences are shared and never go back.           *)
(***************************************************************************)
\* "b", "V"
UpsertDrafts ==
    {Draft(Soup, <<IngredientEntry(PyStr(<<97>>))>>),
     Draft(Soup, <<IngredientEntry(PyStr(<<98>>))>>),
     WithItem(Draft(Stew, <<IngredientEntry(PyStr(<<32, 66>>))>>),
              "dietary_tags", PyList(<<PyStr(<<86>>)>>)),
     WithItem(Draft(Stew, <<IngredientEntry(PyStr(<<97>>))>>),
              "dietary_tags", PyList(<<PyStr(<<118>>)>>))}

UpsertInit ==
    /\ KeyIdle /\ OtherIdle /\ LimiterIdle /\ ClientIdle /\ ParseIdle /\ SearchIdle
    /\ now = 0
    /\ recipes = {}
    /\ cache_lookup = [cache_key |-> SqlNull, max_age_days |-> 0, result |-> PyNone]
    /\ tables \in SeededTables
    /\ next_id = 2

\* the session of call s as its queries see it
SessionOf(s) ==
    [Session(recipes, tables, next_id, now)
        EXCEPT !.new_recipes = persists[s].new_recipes,
               !.new_rows = persists[s].new_rows]

Running(s) == persists[s].pc \in {"find", "insert"}

\* the table and the name, lower-cased and trimmed, of the entry the loop
\* of lines 141-165 or of lines 169-187 is at
ItemTable(item) == IF item.kind = "ingredient" THEN "ingredients" ELSE "dietary_tags"

ItemName(item) == Strip(StrLower(item.name.v))

\* lines 123-138: the Recipe is added and flushed
PersistBegin(s) ==
    /\ persists[s].pc = "idle"
    /\ \E recipe_data \in UpsertDrafts :
          LET ingredient_list == GetItem(recipe_data, "ingredients").v
              dietary_tags == IF HasKey(recipe_data, "dietary_tags")
                              THEN GetItem(recipe_data, "dietary_tags").v ELSE <<>>
          IN persists' = [persists EXCEPT ![s] =
                [pc |-> "find", recipe_data |-> recipe_data, recipe_id |-> next_id,
                 todo |-> [i \in 1..Len(ingredient_list) |->
                              [kind |-> "ingredient",
                               name |-> GetItem(ingredient_list[i], "name")]]
                          \o [i \in 1..Len(dietary_tags) |->
                                 [kind |-> "tag", name |-> dietary_tags[i]]],
                 new_recipes |->
                     {RecipeRow(next_id, GetItem(recipe_data, "name"),
                                GetItem(recipe_data, "cooking_time_minutes"),
                                GetItem(recipe_data, "difficulty"),
                                GetItem(recipe_data, "serving_size"),
                                [sha256 |-> <<>>], now)},
                 new_rows |-> {}, outcome |-> PyNone,
                 during |-> {o \in 1..MaxPersists : Running(o)},
                 began_on |-> tables]]
    /\ next_id' = next_id + 1
    /\ UNCHANGED <<now, recipes, cache_lookup, tables, race, callers, overlapped>>
    /\ UNCHANGED <<keyVars, limiterVars, clientVars, parseVars, searchVars>>
    /\ UNCHANGED <<matchVars, normalizeVars, sweepVars, detailVars, ratingVars>>

\* the relationship row of lines 158-165 or 183-187
LinkRow(item, id, recipe_id, other_id) ==
    [table |-> IF item.kind = "ingredient" THEN "recipe_ingredients"
               ELSE "recipe_dietary_tags",
     id |-> IF item.kind = "ingredient" THEN id ELSE 0,
     name |-> <<>>, synonyms |-> {}, recipe_id |-> recipe_id, other_id |-> other_id]

\* lines 145 and 173-175: the query for the ingredient or the tag; when it
\* finds a row the relationship to that row is added
FindItem(s) ==
    /\ persists[s].pc = "find"
    /\ persists[s].todo # <<>>
    /\ LET item == Head(persists[s].todo)
           found == IF item.kind = "ingredient"
                    THEN find_ingredient_by_name_or_synonym(SessionOf(s), ItemName(item))
                    ELSE {r \in Visible(SessionOf(s), "dietary_tags") :
                             StrLower(r.name) = ItemName(item)}
       IN IF found = {}
          THEN /\ persists' = [persists EXCEPT ![s].pc = "insert"]
               /\ UNCHANGED next_id
          ELSE /\ persists' = [persists EXCEPT
                      ![s].todo = Tail(@),
                      ![s].new_rows = @ \cup {LinkRow(item, next_id, persists[s].recipe_id,
                                                      FirstRow(found).id)}]
               /\ next_id' = next_id + 1
    /\ UNCHANGED <<now, recipes, cache_lookup, tables, race, callers, overlapped>>
    /\ UNCHANGED <<keyVars, limiterVars, clientVars, parseVars, searchVars>>
    /\ UNCHANGED <<matchVars, normalizeVars, sweepVars, detailVars, ratingVars>>

\* lines 149-155 and 178-180: the INSERT of the flush.  It waits for a
\* transaction that holds a row of the name, and is refused when a row of
\* the name is committed: the transaction is rolled back and the call
\* raises
InsertItem(s) ==
    /\ persists[s].pc = "insert"
    /\ LET item == Head(persists[s].todo)
           same(r) == r.table = ItemTable(item) /\ r.name = ItemName(item)
           row == [table |-> ItemTable(item), id |-> next_id, name |-> ItemName(item),
                   synonyms |-> {}, recipe_id |-> 0, other_id |-> 0]
       IN /\ \A o \in 1..MaxPersists \ {s} : \A r \in persists[o].new_rows : ~same(r)
          /\ IF \E r \in tables \cup persists[s].new_rows : same(r)
             THEN persists' = [persists EXCEPT
                      ![s].pc = "raised", ![s].new_recipes = {}, ![s].new_rows = {},
                      ![s].outcome = Raised("IntegrityError", ItemTable(item))]
             ELSE persists' = [persists EXCEPT
                      ![s].pc = "find", ![s].todo = Tail(@),
                      ![s].new_rows = @ \cup {row, LinkRow(item, next_id + 1,
                                                           persists[s].recipe_id, next_id)}]
    /\ next_id' = next_id + 2
    /\ UNCHANGED <<now, recipes, cache_lookup, tables, race, callers, overlapped>>
    /\ UNCHANGED <<keyVars, limiterVars, clientVars, parseVars, searchVars>>
    /\ UNCHANGED <<matchVars, normalizeVars, sweepVars, detailVars, ratingVars>>

\* lines 189-192: db.commit()
CommitPersist(s) ==
    /\ persists[s].pc = "find"
    /\ persists[s].todo = <<>>
    /\ \E done \in {commit(SessionOf(s))} :
          /\ recipes' = done.recipes
          /\ tables' = done.tables
    /\ persists' = [persists EXCEPT
           ![s].pc = "returned", ![s].new_recipes = {}, ![s].new_rows = {},
           ![s].outcome = Returned(persists[s].recipe_id)]
    /\ UNCHANGED <<now, cache_lookup, next_id, race, callers, overlapped>>
    /\ UNCHANGED <<keyVars, limiterVars, clientVars, parseVars, searchVars>>
    /\ UNCHANGED <<matchVars, normalizeVars, sweepVars, detailVars, ratingVars>>

UpsertNext ==
    \E s \in 1..MaxPersists :
       PersistBegin(s) \/ FindItem(s) \/ InsertItem(s) \/ CommitPersist(s)

SpecUpsert == UpsertInit /\ [][UpsertNext]_vars

(***************************************************************************)
(* Claims about calls of store_recipe_in_db that run at the same time      *)
(***************************************************************************)
Ended(s) == persists[s].pc \in {"returned", "raised"}

\* the entries of the draft of call s, as <<table, name>>
Referenced(s) ==
    LET recipe_data == persists[s].recipe_data
        ingredient_list == GetItem(recipe_data, "ingredients").v
        dietary_tags == IF HasKey(recipe_data, "dietary_tags")
                        THEN GetItem(recipe_data, "dietary_tags").v ELSE <<>>
    IN {<<"ingredients", Strip(StrLower(GetItem(ingredient_list[i], "name").v))>> :
            i \in 1..Len(ingredient_list)}
       \cup {<<"dietary_tags", Strip(StrLower(dietary_tags[i].v))>> :
                 i \in 1..Len(dietary_tags)}

\* the rows of the entry that the recipe of call s is associated with
AssociatedWith(s, entry) ==
    {r \in tables :
        /\ r.table = entry[1] /\ r.name = entry[2]
        /\ \E l \in tables :
              /\ l.table \in {"recipe_ingredients", "recipe_dietary_tags"}
              /\ l.recipe_id = persists[s].recipe_id /\ l.other_id = r.id}

\* C24: when two calls of store_recipe_in_db that run at the same time both
\* name an ingredient (or a dietary tag) that no row existed for, both
\* recipes are persisted and both are associated with one and the same
\* Ingredient (or DietaryTag) row.
C24_ConcurrentUpsert ==
    \A p \in 1..MaxPersists, q \in 1..MaxPersists :
       (p # q /\ Ended(p) /\ Ended(q) /\ p \in persists[q].during) =>
          \A entry \in Referenced(p) \cap Referenced(q) :
             (\A r \in persists[p].began_on \cup persists[q].began_on :
                 ~(r.table = entry[1] /\ r.name = entry[2])) =>
                /\ IsReturned(persists[p].outcome) /\ IsReturned(persists[q].outcome)
                /\ \E r \in tables :
                      AssociatedWith(p, entry) = {r} /\ AssociatedWith(q, entry) = {r}

====
